---- MODULE Spec2Model ----
(***************************************************************************)
(* The UEFI boot stub of osc-os (boot-stub/src/loader/mod.rs) and the ELF  *)
(* view it reads (boot-stub/src/elf/mod.rs), as a state machine.           *)
(*                                                                         *)
(* 64-bit machine words are kept at full width as four 16-bit limbs,       *)
(* least significant first: <<l0, l1, l2, l3>> is                          *)
(* l0 + l1 * 2^16 + l2 * 2^32 + l3 * 2^48.                                 *)
(***************************************************************************)
EXTENDS Integers, Sequences, FiniteSets, TLC

\* ------------------------------------------------------------------------
\* 64-bit words (u64 / usize on x86_64)
\* ------------------------------------------------------------------------

Limb == 256 * 256

U64Of(n) == <<n % Limb, (n \div Limb) % Limb, 0, 0>>

Zero64 == <<0, 0, 0, 0>>

\* The value of a word known to be below 2^31.
IsSmall(a) == a[3] = 0 /\ a[4] = 0 /\ a[2] < 32768

ToNat(a) == a[1] + a[2] * Limb

\* Addition: the sum modulo 2^64 and whether it overflowed.
AddC(a, b) ==
    LET s1 == a[1] + b[1]
        s2 == a[2] + b[2] + (s1 \div Limb)
        s3 == a[3] + b[3] + (s2 \div Limb)
        s4 == a[4] + b[4] + (s3 \div Limb)
    IN  [v |-> <<s1 % Limb, s2 % Limb, s3 % Limb, s4 % Limb>>,
         overflow |-> s4 >= Limb]

\* Subtraction: the difference modulo 2^64 and whether it borrowed.
SubB(a, b) ==
    LET d1 == a[1] - b[1]
        b1 == IF d1 < 0 THEN 1 ELSE 0
        d2 == a[2] - b[2] - b1
        b2 == IF d2 < 0 THEN 1 ELSE 0
        d3 == a[3] - b[3] - b2
        b3 == IF d3 < 0 THEN 1 ELSE 0
        d4 == a[4] - b[4] - b3
    IN  [v |-> <<d1 % Limb, d2 % Limb, d3 % Limb, d4 % Limb>>,
         overflow |-> d4 < 0]

Lt64(a, b) == SubB(a, b).overflow

Le64(a, b) == ~Lt64(b, a)

\* a >> 12
Shr12(a) ==
    <<(a[1] \div 4096) + (a[2] % 4096) * 16,
      (a[2] \div 4096) + (a[3] % 4096) * 16,
      (a[3] \div 4096) + (a[4] % 4096) * 16,
      a[4] \div 4096>>

\* a << 12: the bits shifted out at the top are dropped (a shift never
\* raises an arithmetic-overflow panic).
Shl12(a) ==
    <<(a[1] % 16) * 4096,
      (a[1] \div 16) + (a[2] % 16) * 4096,
      (a[2] \div 16) + (a[3] % 16) * 4096,
      (a[3] \div 16) + (a[4] % 16) * 4096>>

\* a << 2
Shl2(a) ==
    <<(a[1] % 16384) * 4,
      (a[1] \div 16384) + (a[2] % 16384) * 4,
      (a[2] \div 16384) + (a[3] % 16384) * 4,
      (a[3] \div 16384) + (a[4] % 16384) * 4>>

\* a & 0xFFF
AndFFF(a) == <<a[1] % 4096, 0, 0, 0>>

\* a & !0xFFF
AndNotFFF(a) == <<a[1] - (a[1] % 4096), a[2], a[3], a[4]>>

\* ------------------------------------------------------------------------
\* The ELF view (elf/mod.rs).  A buffer is a sequence of bytes; the byte at
\* offset p is buf[p + 1].  Multi-byte fields are read in place, which on
\* x86_64 is little-endian.
\* ------------------------------------------------------------------------

ReadU16(buf, off) == buf[off + 1] + buf[off + 2] * 256

\* A u32 is two limbs, least significant first.
ReadU32(buf, off) == <<ReadU16(buf, off), ReadU16(buf, off + 2)>>

ReadU64(buf, off) ==
    <<ReadU16(buf, off), ReadU16(buf, off + 2),
      ReadU16(buf, off + 4), ReadU16(buf, off + 6)>>

\* size_of::<FileHeaderCommon>(): 4 + 1 + 1 + 1 + 1 + 8 + 2 + 2 + 4
SizeOfFileHeaderCommon == 4 + 4 + 8 + 2 + 2 + 4

\* size_of::<ProgramHeader64>(): two u32 and six u64
SizeOfProgramHeader64 == 2 * 4 + 6 * 8

FileHeaderCommon(buf) ==
    [magic           |-> SubSeq(buf, 1, 4),
     architecture    |-> buf[5],
     endianness      |-> buf[6],
     header_version  |-> buf[7],
     abi             |-> buf[8],
     binary_type     |-> ReadU16(buf, 16),
     instruction_set |-> ReadU16(buf, 18),
     elf_version     |-> ReadU32(buf, 20)]

FileHeader64(buf, at) ==
    [program_entry                 |-> ReadU64(buf, at),
     program_header_table_position |-> ReadU64(buf, at + 8),
     section_header_table_position |-> ReadU64(buf, at + 16),
     flags                         |-> ReadU32(buf, at + 24),
     header_size                   |-> ReadU16(buf, at + 28),
     program_header_entry_size     |-> ReadU16(buf, at + 30),
     program_header_entry_count    |-> ReadU16(buf, at + 32),
     section_header_entry_size     |-> ReadU16(buf, at + 34),
     section_header_entry_count    |-> ReadU16(buf, at + 36),
     section_name_entry_index      |-> ReadU16(buf, at + 38)]

ProgramHeader64(buf, at) ==
    [segment_type   |-> ReadU32(buf, at),
     flags          |-> ReadU32(buf, at + 4),
     offset         |-> ReadU64(buf, at + 8),
     vma            |-> ReadU64(buf, at + 16),
     lma            |-> ReadU64(buf, at + 24),
     size_in_file   |-> ReadU64(buf, at + 32),
     size_in_memory |-> ReadU64(buf, at + 40),
     align          |-> ReadU64(buf, at + 48)]

\* ELF64::open: no validation, the two headers are overlaid on the buffer.
ELF64_open(file) ==
    [len           |-> Len(file),
     header_common |-> FileHeaderCommon(file),
     header_64     |-> FileHeader64(file, SizeOfFileHeaderCommon)]

\* ELF64::program_entries: program_header_entry_count descriptors of
\* size_of::<ProgramHeader64>() bytes each, from program_header_table_position.
program_entries(file) ==
    LET h     == ELF64_open(file).header_64
        first == ToNat(h.program_header_table_position)
    IN  [i \in 1..h.program_header_entry_count |->
            ProgramHeader64(file, first + (i - 1) * SizeOfProgramHeader64)]

\* From<u32> for SegmentType, arm by arm in match order.
SegmentTypeFrom(value) ==
    CASE value = <<0, 0>> -> <<"Null">>
      [] value = <<1, 0>> -> <<"Load">>
      [] value = <<2, 0>> -> <<"Dynamic">>
      [] value = <<3, 0>> -> <<"Interpreter">>
      [] value = <<4, 0>> -> <<"Note">>
      [] value = <<5, 0>> -> <<"Shlib">>
      [] value = <<6, 0>> -> <<"ProgramHeaderTable">>
      [] value = <<58704, 25716>> -> <<"GNUEHFrame">>
      [] value = <<58705, 25716>> -> <<"GNUStack">>
      [] OTHER ->
            IF value[2] \div 4096 = 6 THEN <<"OperatingSystemSpecific", value>>
            ELSE IF value[2] \div 4096 = 7 THEN <<"ProcessorSpecific", value>>
            ELSE <<"Other", value>>

segment_type(pe) == SegmentTypeFrom(pe.segment_type)

\* ELF64::program_entry_data: the bytes of the segment in the file,
\* [offset, offset + size_in_file) of the buffer.
program_entry_data(file, pe) ==
    SubSeq(file, ToNat(pe.offset) + 1, ToNat(pe.offset) + ToNat(pe.size_in_file))

\* ------------------------------------------------------------------------
\* Kernel files on the boot volume: the inputs.  Every file holds the two
\* headers, a program header table of at most MaxSegs entries right after
\* them, and a data area that all segments lie in.
\* ------------------------------------------------------------------------

MaxSegs == 2

LE16(n) == <<n % 256, n \div 256>>

LE32(a) == LE16(a[1]) \o LE16(a[2])

LE64(a) == LE16(a[1]) \o LE16(a[2]) \o LE16(a[3]) \o LE16(a[4])

PT_NULL == <<0, 0>>

PT_LOAD == <<1, 0>>

PT_NOTE == <<4, 0>>

AllOnes64 == <<Limb - 1, Limb - 1, Limb - 1, Limb - 1>>

\* doff is the segment's offset in the data area.
CoreTemplates ==
    { \* spec scenario, segment A: 16 bytes of zero fill
      [type |-> PT_LOAD, vma |-> U64Of(4096), doff |-> 0,
       size_in_file |-> U64Of(16), size_in_memory |-> U64Of(32)],
      \* spec scenario, segment B: no zero fill
      [type |-> PT_LOAD, vma |-> U64Of(8192), doff |-> 16,
       size_in_file |-> U64Of(48), size_in_memory |-> U64Of(48)],
      \* starts 2 bytes before a page boundary and crosses it
      [type |-> PT_LOAD, vma |-> U64Of(3 * 4096 + 4094), doff |-> 2,
       size_in_file |-> U64Of(3), size_in_memory |-> U64Of(5)],
      \* not loadable
      [type |-> PT_NOTE, vma |-> U64Of(5 * 4096), doff |-> 0,
       size_in_file |-> U64Of(4), size_in_memory |-> U64Of(4)] }

EdgeTemplates ==
    { \* memory size 2^64 - 1 at page offset 8
      [type |-> PT_LOAD, vma |-> U64Of(7 * 4096 + 8), doff |-> 0,
       size_in_file |-> U64Of(0), size_in_memory |-> AllOnes64],
      \* memory size 2^64 - 1 at page offset 0
      [type |-> PT_LOAD, vma |-> U64Of(9 * 4096), doff |-> 0,
       size_in_file |-> U64Of(0), size_in_memory |-> AllOnes64],
      \* file size above memory size
      [type |-> PT_LOAD, vma |-> U64Of(6 * 4096), doff |-> 0,
       size_in_file |-> U64Of(4), size_in_memory |-> U64Of(2)] }

\* Tables of up to MaxSegs ordinary entries, and one table per edge entry.
ProgramTables ==
    UNION { [1..n -> CoreTemplates] : n \in 0..MaxSegs }
      \cup { <<t>> : t \in EdgeTemplates }

DataLen == 16 + 48

HeaderLen == SizeOfFileHeaderCommon + 40

\* 0xFFFFFFFF80001000
EntryAddress == <<4096, 32768, Limb - 1, Limb - 1>>

Zeros(n) == [i \in 1..n |-> 0]

HeaderBytes(n) ==
    <<127, 69, 76, 70, 2, 1, 1, 0>> \o Zeros(8)
      \o LE16(2) \o LE16(62) \o LE32(<<1, 0>>)
      \o LE64(EntryAddress) \o LE64(U64Of(HeaderLen)) \o LE64(Zero64)
      \o LE32(<<0, 0>>) \o LE16(HeaderLen) \o LE16(SizeOfProgramHeader64)
      \o LE16(n) \o LE16(0) \o LE16(0) \o LE16(0)

EntryBytes(t, dataStart) ==
    LE32(t.type) \o LE32(<<5, 0>>) \o LE64(U64Of(dataStart + t.doff))
      \o LE64(t.vma) \o LE64(t.vma)
      \o LE64(t.size_in_file) \o LE64(t.size_in_memory) \o LE64(U64Of(4096))

RECURSIVE TableBytes(_, _)
TableBytes(tab, dataStart) ==
    IF tab = <<>> THEN <<>>
    ELSE EntryBytes(Head(tab), dataStart) \o TableBytes(Tail(tab), dataStart)

KernelFile(tab) ==
    LET dataStart == HeaderLen + Len(tab) * SizeOfProgramHeader64
    IN  HeaderBytes(Len(tab)) \o TableBytes(tab, dataStart)
          \o [k \in 1..DataLen |-> k]

\* ------------------------------------------------------------------------
\* The firmware (external): status codes and the record of a call
\* ------------------------------------------------------------------------

EFI_SUCCESS == Zero64

\* A warning: the high bit is clear.
EFI_WARN_WRITE_FAILURE == <<3, 0, 0, 0>>

\* Errors: the high bit is set.
EFI_BUFFER_TOO_SMALL == <<5, 0, 0, 32768>>

EFI_DEVICE_ERROR == <<7, 0, 0, 32768>>

Statuses == {EFI_SUCCESS, EFI_WARN_WRITE_FAILURE, EFI_DEVICE_ERROR}

IsError(status) == status[4] >= 32768

NoArg == <<>>

\* ret is what the call handed back, where the loader uses it.
Call(op, status, arg) == [op |-> op, status |-> status, arg |-> arg, ret |-> NoArg]

\* Physical memory the firmware can hand out, in pages, and the page-aligned
\* addresses it may return (page numbers 256, 512, ...).
MaxAllocPages == 2

PhysAddrs == { U64Of(k * 256 * 4096) : k \in 1..(MaxSegs + 1) }

\* The addresses the firmware may answer an allocation with: the lowest or
\* the highest free one.
FreePages(used) ==
    LET free == PhysAddrs \ used
    IN  { a \in free : (\A b \in free : Le64(a, b)) \/ (\A b \in free : Le64(b, a)) }

\* ------------------------------------------------------------------------
\* Console text (loader/mod.rs)
\* ------------------------------------------------------------------------

\* Number of hex digits `{:x}` prints for a usize.
HexDigits(n) == IF n >= 4096 THEN 4 ELSE IF n >= 256 THEN 3 ELSE IF n >= 16 THEN 2 ELSE 1

HexLen(a) ==
    IF a[4] # 0 THEN 12 + HexDigits(a[4])
    ELSE IF a[3] # 0 THEN 8 + HexDigits(a[3])
    ELSE IF a[2] # 0 THEN 4 + HexDigits(a[2])
    ELSE HexDigits(a[1])

\* let mut buf = [0u16; 64]
BufLen == 64

\* string_bytes.chunks(buf.len() - 1): the number of chunks of a text
Chunks(len) == (len + (BufLen - 2)) \div (BufLen - 1)

BootErrorKinds ==
    <<"RetrieveImageInfoFailed", "RetrieveSimpleFileSystemFailed",
      "RetrieveVolumeFailed", "OpenKernelFailed", "StatKernelFailed",
      "ReadKernelFailed">>

\* The match of run(): the text printed for each BootError.
DiagnosticFmt(kind) ==
    CASE kind = "RetrieveImageInfoFailed" ->
            "Failed to get boot image information ({:x})\r\n"
      [] kind = "RetrieveSimpleFileSystemFailed" ->
            "Failed to get access to boot file system ({:x})\r\n"
      [] kind = "RetrieveVolumeFailed" ->
            "Failed to get access to boot volume ({:x})\r\n"
      [] kind = "OpenKernelFailed" ->
            "Failed to get open the kernel file for reading ({:x})\r\n"
      [] kind = "StatKernelFailed" ->
            "Failed to get read information about the kernel file ({:x})\r\n"
      [] kind = "ReadKernelFailed" ->
            "Failed to read the kernel file into memory ({:x})\r\n"

\* format!(fmt, status_code): the text and its length in bytes.
DiagnosticMsg(error) ==
    [fmt |-> DiagnosticFmt(error.kind), arg |-> error.status,
     len |-> Len(DiagnosticFmt(error.kind)) - Len("{:x}") + HexLen(error.status)]

StaticMsg(text) == [fmt |-> text, arg |-> NoArg, len |-> Len(text)]

\* ------------------------------------------------------------------------
\* State
\* ------------------------------------------------------------------------

VARIABLES
    pc,                 \* position in run() / prepare() / transfer_to_kernel()
    phase,              \* the Loader's phase type: "Prepare" or "Ready"
    overflow_checks,    \* the build: TRUE panics on arithmetic overflow, FALSE wraps
    table,              \* the program header table of the kernel file on the volume
    dbg_len,            \* length of a {:?} text (depends on addresses; an input)
    calls,              \* every firmware call made so far, in order
    result,             \* what prepare() returned
    loaded_image,       \* PreparedKernel.loaded_image
    out,                \* print_string in progress: text, chunks left, return position
    hist,               \* how often prepare(), Ready and transfer_to_kernel() were entered
    pe_i,               \* load loop: index of the entry it is at (past the end: done)
    load_index,         \* load loop: enumerate() index
    cur,                \* load loop: the locals of the current iteration
    required_mappings,  \* Vec<(vma, target_raw)>
    mem,                \* allocated regions: address -> [len, bytes written]
    print_i,            \* second loop: index of the entry being printed
    map_info,           \* memory_map_params() result
    control,            \* where the processor executes: the boot stub, or a kernel entry
    probe               \* a structure under inspection: its kind, raw contents, values read off it

vars ==
    <<pc, phase, overflow_checks, table, dbg_len, calls, result, loaded_image,
      out, hist, pe_i, load_index, cur, required_mappings, mem, print_i,
      map_info, control, probe>>

\* What no step of the loader changes.
env == <<overflow_checks, table, dbg_len, probe>>

transfer_vars ==
    <<pe_i, load_index, cur, required_mappings, mem, print_i, map_info, control>>

NoOut == [msg |-> StaticMsg(""), left |-> 0, heap |-> FALSE, ret |-> ""]

NoCur == <<>>

\* The loader inspects no descriptor or page-table entry.
NoProbe == [kind |-> "", in |-> <<>>, out |-> <<>>]

\* Lengths of a Debug-formatted text: one and two console calls.
DebugLens == {BufLen - 1, BufLen}

Init ==
    /\ pc = "run"
    /\ phase = "Prepare"
    /\ overflow_checks \in BOOLEAN
    /\ table \in ProgramTables
    /\ dbg_len \in DebugLens
    /\ calls = <<>>
    /\ result = [ok |-> FALSE, kind |-> "", status |-> EFI_SUCCESS]
    /\ loaded_image = <<>>
    /\ out = NoOut
    /\ hist = [prepare |-> 0, ready |-> 0, transfer |-> 0]
    /\ pe_i = 0
    /\ load_index = 0
    /\ cur = NoCur
    /\ required_mappings = <<>>
    /\ mem = <<>>
    /\ print_i = 0
    /\ map_info = [map_size |-> Zero64, entry_size |-> Zero64]
    /\ control = [in |-> "boot-stub", entry |-> Zero64, inventory |-> NoArg]
    /\ probe = NoProbe

\* ------------------------------------------------------------------------
\* panic / oom (main.rs) and print_string (loader/mod.rs)
\* ------------------------------------------------------------------------

\* #[panic_handler] fn panic: loop {}
panic == "panic_loop"

\* #[alloc_error_handler] fn oom: loop {}
oom == "oom_loop"

\* print_string(st, string) is entered: a String argument (format!) is first
\* allocated from the firmware pool, a &'static str is not.
PrintString(msg, heap, ret) ==
    /\ out' = [msg |-> msg, left |-> Chunks(msg.len), heap |-> heap, ret |-> ret]
    /\ pc' = IF heap THEN "format" ELSE "print"

\* format!: the allocation of the String through uefi::alloc.
Format ==
    /\ pc = "format"
    /\ \/ /\ calls' = Append(calls, Call("allocate_pool", EFI_SUCCESS, <<out.msg.len>>))
          /\ pc' = "print"
       \/ /\ calls' = Append(calls, Call("allocate_pool", EFI_DEVICE_ERROR, <<out.msg.len>>))
          /\ pc' = oom
    /\ UNCHANGED <<phase, env, result, loaded_image, out, hist, transfer_vars>>

\* One chunk of print_string: output_string(..).unwrap_success(), which
\* panics on an error status and goes on after a warning; after the last
\* chunk the String (if any) is dropped and print_string returns.
ConsoleWrite ==
    /\ pc = "print"
    /\ \E status \in {EFI_SUCCESS, EFI_DEVICE_ERROR} :
          LET call == Call("output_string", status,
                           <<out.msg.fmt, out.msg.arg, Chunks(out.msg.len) - out.left + 1>>)
              free == IF out.heap THEN <<Call("free_pool", EFI_SUCCESS, NoArg)>> ELSE <<>>
          IN  IF IsError(status)
              THEN /\ calls' = Append(calls, call)
                   /\ pc' = panic
                   /\ out' = out
              ELSE IF out.left > 1
              THEN /\ calls' = Append(calls, call)
                   /\ pc' = "print"
                   /\ out' = [out EXCEPT !.left = @ - 1]
              ELSE /\ calls' = Append(calls, call) \o free
                   /\ pc' = out.ret
                   /\ out' = NoOut
    /\ UNCHANGED <<phase, env, result, loaded_image, hist, transfer_vars>>

\* ------------------------------------------------------------------------
\* Loader<Prepare>::run and Loader<Prepare>::prepare
\* ------------------------------------------------------------------------

\* run(), first statement.
RunEntered ==
    /\ pc = "run"
    /\ PrintString(StaticMsg("UEFI boot stub entered.\r\n"), FALSE, "run_prepare")
    /\ UNCHANGED <<phase, env, calls, result, loaded_image, hist, transfer_vars>>

\* uefi::alloc::init (no firmware call), then `match self.prepare()`.
RunPrepare ==
    /\ pc = "run_prepare"
    /\ pc' = "prepare_image_info"
    /\ hist' = [hist EXCEPT !.prepare = @ + 1]
    /\ UNCHANGED <<phase, env, calls, result, loaded_image, out, transfer_vars>>

\* Faulty variant: the Err arm builds the Ready loader as the Ok arm does.
ErrArm_EntersReady == "run_ready"

\* The match arm run() takes on Err(error).
ErrArm == "run_err"

\* Faulty variant: a failed call is recorded but prepare() goes on to the next call.
PrepareCall_GoesOn(op, kind, next, drops) ==
    \E status \in Statuses :
        /\ calls' = Append(calls, Call(op, status, NoArg))
        /\ pc' = next
        /\ result' = IF status = EFI_SUCCESS THEN result
                     ELSE [ok |-> FALSE, kind |-> kind, status |-> status]

\* One fallible call of prepare():
\*   <call>.warning_as_error().map_err(|err| BootError::<kind>(err.status()))?
\* `drops` are the locals dropped when `?` returns early.
PrepareCall(op, kind, next, drops) ==
    \E status \in Statuses :
        IF status = EFI_SUCCESS
        THEN /\ calls' = Append(calls, Call(op, status, NoArg))
             /\ pc' = next
             /\ result' = result
        ELSE /\ calls' = Append(calls, Call(op, status, NoArg)) \o drops
             /\ pc' = ErrArm
             /\ result' = [ok |-> FALSE, kind |-> kind, status |-> status]

DropVec == Call("free_pool", EFI_SUCCESS, NoArg)

DropFile == Call("close", EFI_SUCCESS, NoArg)

PrepareImageInfo ==
    /\ pc = "prepare_image_info"
    /\ PrepareCall("handle_protocol_LoadedImage", BootErrorKinds[1],
                   "prepare_sfs", <<>>)
    /\ UNCHANGED <<phase, env, loaded_image, out, hist, transfer_vars>>

PrepareSfs ==
    /\ pc = "prepare_sfs"
    /\ PrepareCall("handle_protocol_SimpleFileSystem", BootErrorKinds[2],
                   "prepare_volume", <<>>)
    /\ UNCHANGED <<phase, env, loaded_image, out, hist, transfer_vars>>

PrepareVolume ==
    /\ pc = "prepare_volume"
    /\ PrepareCall("open_volume", BootErrorKinds[3], "prepare_open", <<>>)
    /\ UNCHANGED <<phase, env, loaded_image, out, hist, transfer_vars>>

PrepareOpen ==
    /\ pc = "prepare_open"
    /\ PrepareCall("open", BootErrorKinds[4], "prepare_info_buffer", <<DropFile>>)
    /\ UNCHANGED <<phase, env, loaded_image, out, hist, transfer_vars>>

\* vec![0u8; n]: an allocation from the firmware pool, or the oom handler.
VecAlloc(n, next) ==
    \/ /\ calls' = Append(calls, Call("allocate_pool", EFI_SUCCESS, <<n>>))
       /\ pc' = next
    \/ /\ calls' = Append(calls, Call("allocate_pool", EFI_DEVICE_ERROR, <<n>>))
       /\ pc' = oom

\* let mut info_buffer = vec![0u8; 4096];
PrepareInfoBuffer ==
    /\ pc = "prepare_info_buffer"
    /\ VecAlloc(4096, "prepare_stat")
    /\ UNCHANGED <<phase, env, result, loaded_image, out, hist, transfer_vars>>

PrepareStat ==
    /\ pc = "prepare_stat"
    /\ PrepareCall("get_info", BootErrorKinds[5], "prepare_data",
                   <<DropVec, DropFile, DropFile>>)
    /\ UNCHANGED <<phase, env, loaded_image, out, hist, transfer_vars>>

\* vec![0u8; file_size as usize], file_size being what get_info reported.
PrepareData ==
    /\ pc = "prepare_data"
    /\ VecAlloc(Len(KernelFile(table)), "prepare_read")
    /\ loaded_image' =
          IF pc' = "prepare_read" THEN Zeros(Len(KernelFile(table))) ELSE loaded_image
    /\ UNCHANGED <<phase, env, result, out, hist, transfer_vars>>

\* The firmware may read fewer bytes than the buffer holds; the count read
\* is not looked at.
ReadCounts(len) == {len, len - 1}

\* file.read(&mut data) ... ?; Ok(kernel)
PrepareRead ==
    /\ pc = "prepare_read"
    /\ \E status \in Statuses, n \in ReadCounts(Len(KernelFile(table))) :
        LET file == KernelFile(table)
            call == Call("read", status, <<n>>)
        IN  IF status = EFI_SUCCESS
            THEN /\ calls' = Append(calls, call) \o <<DropVec, DropFile, DropFile>>
                 /\ loaded_image' =
                       [i \in 1..Len(file) |-> IF i <= n THEN file[i] ELSE 0]
                 /\ result' = [ok |-> TRUE, kind |-> "", status |-> EFI_SUCCESS]
                 /\ pc' = "run_ok"
            ELSE /\ calls' = Append(calls, call)
                               \o <<DropVec, DropVec, DropFile, DropFile>>
                 /\ loaded_image' = <<>>
                 /\ result' = [ok |-> FALSE, kind |-> BootErrorKinds[6],
                               status |-> status]
                 /\ pc' = ErrArm
    /\ UNCHANGED <<phase, env, out, hist, transfer_vars>>

\* Ok(kernel) => print, ...
RunOk ==
    /\ pc = "run_ok"
    /\ PrintString(StaticMsg("Preparation succeeded, transferring to kernel.\r\n"),
                   FALSE, "run_ready")
    /\ UNCHANGED <<phase, env, calls, result, loaded_image, hist, transfer_vars>>

\* ... let ready = Loader { .., phase_data: Ready { kernel } };
\* ready.transfer_to_kernel();
RunReady ==
    /\ pc = "run_ready"
    /\ phase' = "Ready"
    /\ hist' = [hist EXCEPT !.ready = @ + 1, !.transfer = @ + 1]
    /\ pc' = "transfer_open"
    /\ UNCHANGED <<env, calls, result, loaded_image, out, transfer_vars>>

\* Faulty variant: after the diagnostic run() starts over instead of calling exit().
AfterDiagnostic_Retries == "run_prepare"

\* Where run() goes once the diagnostic is printed: self.exit().
AfterDiagnostic == "exit"

\* Err(error) => match error { .. => self.print_string(format!(..)) }
RunErr ==
    /\ pc = "run_err"
    /\ PrintString(DiagnosticMsg(result), TRUE, AfterDiagnostic)
    /\ UNCHANGED <<phase, env, calls, result, loaded_image, hist, transfer_vars>>

\* exit(): print, then loop {}
Exit ==
    /\ pc = "exit"
    /\ PrintString(StaticMsg("UEFI boot stub should exit now...\r\n"), FALSE,
                   "exit_loop")
    /\ UNCHANGED <<phase, env, calls, result, loaded_image, hist, transfer_vars>>

\* ------------------------------------------------------------------------
\* Loader<Ready>::transfer_to_kernel
\* ------------------------------------------------------------------------

DebugMsg(fmt) == [fmt |-> fmt, arg |-> NoArg, len |-> dbg_len]

\* ELF64::open, then print_string(format!("Kernel: {:?}\r\n", kernel_elf)).
TransferOpen ==
    /\ pc = "transfer_open"
    /\ PrintString(DebugMsg("Kernel: {:?}\r\n"), TRUE, "transfer_header")
    /\ UNCHANGED <<phase, env, calls, result, loaded_image, hist, transfer_vars>>

\* The column widths of the table header: seven padded fields, six tabs, \r\n.
HeaderLineLen == 10 + 16 + 16 + 10 + 10 + 10 + 16 + 6 + 2

TransferHeader ==
    /\ pc = "transfer_header"
    /\ PrintString([fmt |-> "Idx VMA ...", arg |-> NoArg, len |-> HeaderLineLen],
                   TRUE, "transfer_mappings")
    /\ UNCHANGED <<phase, env, calls, result, loaded_image, hist, transfer_vars>>

\* let mut required_mappings = Vec::with_capacity(4);
TransferMappings ==
    /\ pc = "transfer_mappings"
    /\ VecAlloc(4 * 16, "load_next")
    /\ UNCHANGED <<phase, env, result, loaded_image, out, hist, transfer_vars>>

\* Faulty variant: the filter lets every entry through.
IsLoad_Any(pe) == TRUE

\* .filter(|pe| pe.segment_type() == SegmentType::Load)
IsLoad(pe) == segment_type(pe) = <<"Load">>

\* Faulty variant: the load loop finds no entry.
LoadsAfter_None(i) == {}

\* The entries the filter has yet to yield, given the iterator's position.
LoadsAfter(i) ==
    { j \in DOMAIN program_entries(loaded_image) :
        j > i /\ IsLoad(program_entries(loaded_image)[j]) }

Min(S) == CHOOSE x \in S : \A y \in S : x <= y

\* for (index, entry) in load_entries.enumerate(): the next Load entry, or
\* the end of the loop.
LoadNext ==
    /\ pc = "load_next"
    /\ IF LoadsAfter(pe_i) # {}
       THEN /\ pe_i' = Min(LoadsAfter(pe_i))
            /\ pc' = "load_compute"
       ELSE /\ pe_i' = Len(program_entries(loaded_image)) + 1
            /\ pc' = "print_entries"
    /\ cur' = NoCur
    /\ UNCHANGED <<phase, env, calls, result, loaded_image, out, hist, load_index,
                   required_mappings, mem, print_i, map_info, control>>

\* (entry.size_in_memory as usize + vma_offset + 0xFFF) >> 12
PageCount(size_in_memory, vma_offset) ==
    LET s1 == AddC(size_in_memory, vma_offset)
        s2 == AddC(s1.v, U64Of(4095))
    IN  [v |-> Shr12(s2.v), overflow |-> s1.overflow \/ s2.overflow]

\* (entry.size_in_memory - entry.size_in_file) as usize
ZeroBytes(entry) == SubB(entry.size_in_memory, entry.size_in_file)

\* The locals of one iteration, lines 69-73.
LoadCompute ==
    /\ pc = "load_compute"
    /\ LET entry == program_entries(loaded_image)[pe_i]
           vma_offset == AndFFF(entry.vma)
           count == PageCount(entry.size_in_memory, vma_offset)
           zero == ZeroBytes(entry)
       IN  IF overflow_checks /\ (count.overflow \/ zero.overflow)
           THEN /\ pc' = panic
                /\ cur' = cur
           ELSE /\ pc' = "load_allocate"
                /\ cur' = [index |-> load_index,
                           vma |-> entry.vma,
                           vma_offset |-> vma_offset,
                           vma_page_aligned |-> AndNotFFF(entry.vma),
                           vma_page_count |-> count.v,
                           zero_bytes |-> zero.v,
                           target_raw |-> Zero64]
    /\ load_index' = load_index + 1
    /\ UNCHANGED <<phase, env, calls, result, loaded_image, out, hist, pe_i,
                   required_mappings, mem, print_i, map_info, control>>

\* The row of the table: between 96 and 112 bytes, two console calls.
RowMsg(c) == [fmt |-> "row", arg |-> <<c.index, c.vma, c.target_raw>>,
              len |-> HeaderLineLen]

\* bs.allocate_pages(AnyPages, LOADER_DATA, vma_page_count).unwrap_success(),
\* then the row is printed.  The firmware returns pages no one holds yet.
LoadAllocate ==
    /\ pc = "load_allocate"
    /\ \/ /\ IsSmall(cur.vma_page_count)
          /\ ToNat(cur.vma_page_count) <= MaxAllocPages
          /\ \E addr \in FreePages(DOMAIN mem) :
                /\ calls' = Append(calls,
                       [Call("allocate_pages", EFI_SUCCESS, cur.vma_page_count)
                          EXCEPT !.ret = addr])
                /\ cur' = [cur EXCEPT !.target_raw = addr]
                /\ mem' = (addr :> [pages |-> cur.vma_page_count,
                                    bytes |-> <<>>]) @@ mem
                /\ PrintString(RowMsg(cur'), TRUE, "load_copy")
       \/ /\ calls' = Append(calls,
                 Call("allocate_pages", EFI_DEVICE_ERROR, cur.vma_page_count))
          /\ pc' = panic
          /\ UNCHANGED <<cur, mem, out>>
    /\ UNCHANGED <<phase, env, result, loaded_image, hist, pe_i, load_index,
                   required_mappings, print_i, map_info, control>>

\* from_raw_parts_mut(target_raw as *mut u8, vma_page_count << 12).len()
TargetLen(c) == Shl12(c.vma_page_count)

\* target[from..to]: the slice index check.
SliceOk(from, to, len) == Le64(from, to) /\ Le64(to, len)

\* The bytes `data` written at from, from + 1, ... of a region.
Written(bytes, from, data) ==
    [i \in from..(from + Len(data) - 1) |-> data[i - from + 1]] @@ bytes

\* target[vma_offset..(vma_offset + entry.size_in_file as usize)]
\*     .copy_from_slice(data)
LoadCopy ==
    /\ pc = "load_copy"
    /\ LET entry == program_entries(loaded_image)[pe_i]
           data  == program_entry_data(loaded_image, entry)
           to    == AddC(cur.vma_offset, entry.size_in_file)
       IN  IF \/ overflow_checks /\ to.overflow
              \/ ~SliceOk(cur.vma_offset, to.v, TargetLen(cur))
              \/ Len(data) # ToNat(to.v) - ToNat(cur.vma_offset)
           THEN /\ pc' = panic
                /\ mem' = mem
           ELSE /\ pc' = "load_zero"
                /\ mem' = [mem EXCEPT ![cur.target_raw].bytes =
                                Written(@, ToNat(cur.vma_offset), data)]
    /\ UNCHANGED <<phase, env, calls, result, loaded_image, out, hist, pe_i,
                   load_index, cur, required_mappings, print_i, map_info, control>>

\* for index in first_zero_byte..last_zero_byte_excl { target[index] = 0; }
\* The indices written before the loop ends or an index check panics, and
\* whether it panics.  The loop is empty when last <= first.
ZeroFill(first, last, len) ==
    IF ~Lt64(first, last) THEN [from |-> 0, count |-> 0, panics |-> FALSE]
    ELSE IF ~Lt64(first, len) THEN [from |-> 0, count |-> 0, panics |-> TRUE]
    ELSE IF Lt64(len, last)
         THEN [from |-> ToNat(first), count |-> ToNat(len) - ToNat(first),
               panics |-> TRUE]
         ELSE [from |-> ToNat(first), count |-> ToNat(last) - ToNat(first),
               panics |-> FALSE]

\* Lines 106-113: the zero fill and required_mappings.push((vma, target_raw)).
\* (with_capacity(4): no reallocation for the tables considered here.)
LoadZero ==
    /\ pc = "load_zero"
    /\ LET entry == program_entries(loaded_image)[pe_i]
           first == AddC(cur.vma_offset, entry.size_in_file)
           last  == AddC(first.v, cur.zero_bytes)
           fill  == ZeroFill(first.v, last.v, TargetLen(cur))
       IN  IF overflow_checks /\ (first.overflow \/ last.overflow)
           THEN /\ pc' = panic
                /\ UNCHANGED <<mem, required_mappings>>
           ELSE /\ mem' = [mem EXCEPT ![cur.target_raw].bytes =
                                Written(@, fill.from, Zeros(fill.count))]
                /\ IF fill.panics
                   THEN /\ pc' = panic
                        /\ required_mappings' = required_mappings
                   ELSE /\ pc' = "load_next"
                        /\ required_mappings' =
                              Append(required_mappings, <<cur.vma, cur.target_raw>>)
    /\ UNCHANGED <<phase, env, calls, result, loaded_image, out, hist, pe_i,
                   load_index, cur, print_i, map_info, control>>

\* for (index, entry) in kernel_elf.program_entries().iter().enumerate()
\*     { print_string(.., format!("PE {}: {:?}\r\n", index, entry)); }
PrintEntries ==
    /\ pc = "print_entries"
    /\ IF print_i < Len(program_entries(loaded_image))
       THEN /\ PrintString(DebugMsg("PE {}: {:?}\r\n"), TRUE, "print_entries")
            /\ print_i' = print_i + 1
       ELSE /\ pc' = "map_params"
            /\ UNCHANGED <<out, print_i>>
    /\ UNCHANGED <<phase, env, calls, result, loaded_image, hist, pe_i, load_index,
                   cur, required_mappings, mem, map_info, control>>

\* What the firmware reports for its memory map: 40 descriptors of 48 bytes.
MapInfos == { [map_size |-> U64Of(40 * 48), entry_size |-> U64Of(48)] }

\* let map_info = ..memory_map_params(); map_size / entry_size; print.
MapParams ==
    /\ pc = "map_params"
    /\ \E info \in MapInfos :
          /\ calls' = Append(calls, Call("memory_map_params", EFI_SUCCESS, NoArg))
          /\ map_info' = info
          /\ IF info.entry_size = Zero64
             THEN pc' = panic /\ out' = out
             ELSE PrintString(DebugMsg("Mem Map Info: {:?}\r\n"), TRUE, "map_count")
    /\ UNCHANGED <<phase, env, result, loaded_image, hist, pe_i, load_index, cur,
                   required_mappings, mem, print_i, control>>

DecDigits(n) == IF n >= 1000 THEN 4 ELSE IF n >= 100 THEN 3 ELSE IF n >= 10 THEN 2 ELSE 1

\* print_string(.., format!("Mem Map Entry Count: {}\r\n", map_entry_count))
MapCount ==
    /\ pc = "map_count"
    /\ LET map_entry_count == ToNat(map_info.map_size) \div ToNat(map_info.entry_size)
       IN  PrintString([fmt |-> "Mem Map Entry Count: {}\r\n",
                        arg |-> <<map_entry_count>>,
                        len |-> Len("Mem Map Entry Count: \r\n")
                                  + DecDigits(map_entry_count)],
                       TRUE, "map_buffer")
    /\ UNCHANGED <<phase, env, calls, result, loaded_image, hist, transfer_vars>>

\* let mut map_dest = vec![0u8; map_info.map_size << 2];
MapBuffer ==
    /\ pc = "map_buffer"
    /\ VecAlloc(ToNat(Shl2(map_info.map_size)), "map_capture")
    /\ UNCHANGED <<phase, env, result, loaded_image, out, hist, transfer_vars>>

\* Faulty variant: a failed capture makes transfer_to_kernel() return to run().
CaptureFailed_Returns == "run_returned"

\* Where transfer_to_kernel() goes when memory_map() reports an error.
CaptureFailed == panic

\* ..memory_map(map_dest.as_mut()).unwrap_success()
MapCapture ==
    /\ pc = "map_capture"
    /\ \E status \in {EFI_SUCCESS, EFI_WARN_WRITE_FAILURE, EFI_BUFFER_TOO_SMALL} :
          /\ calls' = Append(calls, Call("memory_map", status,
                                         <<ToNat(Shl2(map_info.map_size))>>))
          /\ pc' = IF IsError(status) THEN CaptureFailed ELSE "exit_buffer"
    /\ UNCHANGED <<phase, env, result, loaded_image, out, hist, transfer_vars>>

\* let mut map_dest = vec![0u8; map_info.map_size << 2];
ExitBuffer ==
    /\ pc = "exit_buffer"
    /\ VecAlloc(ToNat(Shl2(map_info.map_size)), "exit_boot_services")
    /\ UNCHANGED <<phase, env, result, loaded_image, out, hist, transfer_vars>>

\* Faulty variant: after exit_boot_services the loader calls exit(), which prints.
AfterExitBootServices_Prints == "exit"

\* Where transfer_to_kernel() is after exit_boot_services succeeded: loop {}
AfterExitBootServices == "transfer_loop"

\* ..exit_boot_services(self.image_handle, map_dest.as_mut()).unwrap_success()
ExitBootServices ==
    /\ pc = "exit_boot_services"
    /\ \E status \in Statuses :
          /\ calls' = Append(calls, Call("exit_boot_services", status, NoArg))
          /\ pc' = IF IsError(status) THEN panic ELSE AfterExitBootServices
    /\ UNCHANGED <<phase, env, result, loaded_image, out, hist, transfer_vars>>

\* The four `loop {}`: exit(), the end of transfer_to_kernel(), panic, oom.
Loops == {"exit_loop", "transfer_loop", "panic_loop", "oom_loop"}

Spin ==
    /\ pc \in Loops
    /\ UNCHANGED vars

Next ==
    \/ RunEntered \/ RunPrepare
    \/ PrepareImageInfo \/ PrepareSfs \/ PrepareVolume \/ PrepareOpen
    \/ PrepareInfoBuffer \/ PrepareStat \/ PrepareData \/ PrepareRead
    \/ RunOk \/ RunReady \/ RunErr \/ Exit
    \/ Format \/ ConsoleWrite
    \/ TransferOpen \/ TransferHeader \/ TransferMappings
    \/ LoadNext \/ LoadCompute \/ LoadAllocate \/ LoadCopy \/ LoadZero
    \/ PrintEntries
    \/ MapParams \/ MapCount \/ MapBuffer \/ MapCapture
    \/ ExitBuffer \/ ExitBootServices
    \/ Spin

Spec == Init /\ [][Next]_vars

\* ------------------------------------------------------------------------
\* Claims
\* ------------------------------------------------------------------------

Halted == pc \in Loops

LastCall == calls[Len(calls)]

PrepareOps ==
    <<"handle_protocol_LoadedImage", "handle_protocol_SimpleFileSystem",
      "open_volume", "open", "get_info", "read">>

IsPrepareOp(c) == \E k \in 1..6 : c.op = PrepareOps[k]

\* The calls of prepare() made so far, in order.
PrepareCallsMade == SelectSeq(calls, IsPrepareOp)

ExpectedKind ==
    <<"RetrieveImageInfoFailed", "RetrieveSimpleFileSystemFailed",
      "RetrieveVolumeFailed", "OpenKernelFailed", "StatKernelFailed",
      "ReadKernelFailed">>

\* C1: prepare() makes its six firmware calls in the fixed order image-info,
\* file-system, open-volume, open-kernel, stat-kernel, read-kernel; a call is
\* attempted only if all calls before it succeeded, so nothing follows the
\* first failure (no read after a failed stat); and when the k-th call fails
\* prepare() returns the k-th error kind with the status of that call.  It
\* returns Ok only after all six succeeded.
C1_PrepareShortCircuits ==
    LET made == PrepareCallsMade
        n    == Len(made)
    IN  /\ n <= 6
        /\ \A k \in 1..n : made[k].op = PrepareOps[k]
        /\ \A k \in 1..(n - 1) : made[k].status = EFI_SUCCESS
        /\ (n > 0 /\ made[n].status # EFI_SUCCESS) =>
              result = [ok |-> FALSE, kind |-> ExpectedKind[n],
                        status |-> made[n].status]
        /\ result.kind # "" => n > 0 /\ made[n].status # EFI_SUCCESS
        /\ result.ok => n = 6 /\ made[6].status = EFI_SUCCESS

\* C1 witness: the stat call failed, prepare() returned StatKernelFailed and
\* run() has come to rest, with no read attempted.
C1_Witness ==
    /\ pc = "exit_loop"
    /\ Len(PrepareCallsMade) = 5
    /\ PrepareCallsMade[5].op = "get_info"
    /\ PrepareCallsMade[5].status = EFI_DEVICE_ERROR
    /\ result.kind = "StatKernelFailed"

PrepareFailed == result.kind # ""

TransferOps ==
    {"allocate_pages", "memory_map_params", "memory_map", "exit_boot_services"}

\* A console write of a formatted text that carries a status code.
IsDiagnosticWrite(c) ==
    /\ c.op = "output_string"
    /\ c.arg[1] \in { DiagnosticFmt(ExpectedKind[k]) : k \in 1..6 }

DiagnosticWrites == SelectSeq(calls, IsDiagnosticWrite)

\* No console write and no pool allocation has reported an error.
ConsoleAndPoolWork ==
    \A i \in 1..Len(calls) :
        calls[i].op \in {"output_string", "allocate_pool"} => ~IsError(calls[i].status)

C2_AfterFailure ==
    PrepareFailed =>
        /\ phase = "Prepare"
        /\ hist = [prepare |-> 1, ready |-> 0, transfer |-> 0]
        /\ \A i \in 1..Len(calls) : calls[i].op \notin TransferOps
        /\ \A j \in 1..Len(DiagnosticWrites) :
              DiagnosticWrites[j].arg =
                  <<DiagnosticFmt(result.kind), result.status, j>>
        /\ Len(DiagnosticWrites) <= Chunks(DiagnosticMsg(result).len)
        /\ pc = "exit_loop" =>
              /\ Len(DiagnosticWrites) = Chunks(DiagnosticMsg(result).len)
              /\ Len(DiagnosticWrites) >= 1
        /\ Halted /\ ConsoleAndPoolWork => pc = "exit_loop"

\* Steps left on the failure path of run(): the allocation of the formatted
\* text, its chunks, the call of exit() and the chunks of its text.
ExitChunks == Chunks(StaticMsg("UEFI boot stub should exit now...\r\n").len)

StepsToHalt ==
    CASE Halted -> 0
      [] pc = "print" /\ out.ret = "exit_loop" -> out.left
      [] pc = "exit" -> 1 + ExitChunks
      [] pc = "print" /\ out.ret = "exit" -> out.left + 1 + ExitChunks
      [] pc = "format" /\ out.ret = "exit" -> 1 + out.left + 1 + ExitChunks
      [] pc = "run_err" ->
            2 + Chunks(DiagnosticMsg(result).len) + 1 + ExitChunks
      [] OTHER -> 1000

C3_Phases ==
    /\ hist.prepare <= 1 /\ hist.ready <= 1 /\ hist.transfer <= 1
    /\ (phase = "Ready") <=> (hist.ready = 1)
    /\ (hist.ready = 1) => (result.ok /\ hist.prepare = 1)
    /\ (hist.transfer = 1) => (phase = "Ready")
    /\ (hist.prepare = 0) => (~result.ok /\ result.kind = "")

\* C3: prepare() runs at most once, Ready is entered at most once and only
\* after prepare() returned Ok, transfer_to_kernel() is started at most once
\* and only in Ready, and the phase never goes from Ready back to Prepare.
C3_PhaseHistory ==
    /\ [](C3_Phases)
    /\ [][phase = "Ready" => phase' = "Ready"]_vars

\* C3 witness: the loader went through Prepare and Ready and reached the end
\* of transfer_to_kernel().
C3_Witness ==
    /\ phase = "Ready"
    /\ pc = "transfer_loop"
    /\ hist = [prepare |-> 1, ready |-> 1, transfer |-> 1]

\* ------------------------------------------------------------------------
\* The load loop
\* ------------------------------------------------------------------------

IsAllocatePages(c) == c.op = "allocate_pages"

\* The page allocations requested so far, in order.
AllocateCalls == SelectSeq(calls, IsAllocatePages)

\* p_type = PT_LOAD, read off the raw field.
HasLoadCode(pe) == pe.segment_type = <<1, 0>>

\* The entries of kind Load of the image, in program-header order.
LoadEntries == SelectSeq(program_entries(loaded_image), HasLoadCode)

\* ceil(x / 4096) for a 64-bit x, computed without overflow.
CeilPages(x) ==
    AddC(Shr12(x), IF AndFFF(x) = Zero64 THEN Zero64 ELSE U64Of(1)).v

\* C4: the k-th page allocation of transfer_to_kernel() is made for the k-th
\* Load entry and requests ceil(((memorySize + (virtualAddress mod 4096))
\* mod 2^64) / 4096) pages.
C4_PagesRequested ==
    \A k \in 1..Len(AllocateCalls) :
        /\ k <= Len(LoadEntries)
        /\ AllocateCalls[k].arg =
              CeilPages(AddC(LoadEntries[k].size_in_memory,
                             AndFFF(LoadEntries[k].vma)).v)

\* The load loop has run to its end.
LoadLoopDone ==
    /\ hist.transfer = 1
    /\ pe_i = Len(program_entries(loaded_image)) + 1

\* C5: the mappings recorded so far are those of the first Load entries in
\* program-header order, the k-th pairing the k-th Load entry's virtual
\* address with the address the k-th page allocation returned; allocations
\* and regions written to are made for Load entries only; and when the load
\* loop has ended there is exactly one mapping, one allocation and one region
\* per Load entry.
C5_OneMappingPerLoad ==
    hist.transfer = 1 =>
        LET loads == LoadEntries
            made  == AllocateCalls
        IN  /\ Len(required_mappings) <= Len(made)
            /\ Len(made) <= Len(loads)
            /\ Len(made) <= Len(required_mappings) + 1
            /\ \A k \in 1..Len(required_mappings) :
                  /\ made[k].status = EFI_SUCCESS
                  /\ required_mappings[k] = <<loads[k].vma, made[k].ret>>
            /\ \A j, k \in 1..Len(required_mappings) :
                  required_mappings[j][2] = required_mappings[k][2] => j = k
            /\ DOMAIN mem =
                  { made[k].ret : k \in { j \in 1..Len(made) : made[j].status = EFI_SUCCESS } }
            /\ LoadLoopDone =>
                  /\ Len(required_mappings) = Len(loads)
                  /\ Len(made) = Len(loads)
                  /\ Cardinality(DOMAIN mem) = Len(loads)

\* C5 witness: the loop has ended over a table with a Note entry followed by
\* a Load entry, and one mapping is recorded.
C5_Witness ==
    /\ LoadLoopDone
    /\ Len(program_entries(loaded_image)) = 2
    /\ segment_type(program_entries(loaded_image)[1]) = <<"Note">>
    /\ HasLoadCode(program_entries(loaded_image)[2])
    /\ Len(required_mappings) = 1

\* C6: for every Load segment that has been loaded (its mapping is recorded),
\* with pageOffset = virtualAddress mod 4096: the ranges
\* [pageOffset, pageOffset + fileSize) and [pageOffset + fileSize,
\* pageOffset + memorySize) lie within the allocated region, the first holds
\* the bytes [fileOffset, fileOffset + fileSize) of the image buffer and the
\* second holds zeros.
C6_RegionBytes ==
    \A k \in 1..Len(required_mappings) :
        LET e       == LoadEntries[k]
            region  == mem[required_mappings[k][2]]
            off     == AndFFF(e.vma)
            endFile == AddC(off, e.size_in_file)
            endMem  == AddC(off, e.size_in_memory)
        IN  /\ ~endFile.overflow /\ ~endMem.overflow
            /\ Le64(endFile.v, Shl12(region.pages))
            /\ Le64(endMem.v, Shl12(region.pages))
            /\ \A i \in ToNat(off)..(ToNat(endFile.v) - 1) :
                  /\ i \in DOMAIN region.bytes
                  /\ region.bytes[i] =
                        loaded_image[ToNat(e.offset) + (i - ToNat(off)) + 1]
            /\ \A i \in ToNat(endFile.v)..(ToNat(endMem.v) - 1) :
                  /\ i \in DOMAIN region.bytes
                  /\ region.bytes[i] = 0

\* ------------------------------------------------------------------------
\* The end of transfer_to_kernel()
\* ------------------------------------------------------------------------

AllCallsSucceeded == \A i \in 1..Len(calls) : calls[i].status = EFI_SUCCESS

IsExitBootServices(c) == c.op = "exit_boot_services"

ExitCalls == SelectSeq(calls, IsExitBootServices)

\* C7: when every firmware call has succeeded and boot services have been
\* relinquished, the processor executes the kernel at the program_entry
\* address of the image's 64-bit header, and was handed the captured memory
\* inventory.
C7_ControlTransferred ==
    (AllCallsSucceeded /\ Len(ExitCalls) = 1) =>
        /\ control.in = "kernel"
        /\ control.entry = ELF64_open(loaded_image).header_64.program_entry
        /\ control.inventory # NoArg

\* C8: exit_boot_services is called at most once, and it is the last
\* firmware call the loader makes, whatever status it reported; once it was
\* called the loader is in one of its endless loops.
C8_NoCallAfterExit ==
    /\ Len(ExitCalls) <= 1
    /\ \A i \in 1..Len(calls) :
          IsExitBootServices(calls[i]) => (i = Len(calls) /\ Halted)

\* C8 witness: exit_boot_services reported an error and the loader halted in
\* the panic handler.
C8_Witness ==
    /\ pc = "panic_loop"
    /\ Len(calls) > 0
    /\ IsExitBootServices(LastCall)
    /\ IsError(LastCall.status)

\* The positions of run() before and after transfer_to_kernel().
RunPositions ==
    {"run", "run_prepare", "prepare_image_info", "prepare_sfs", "prepare_volume",
     "prepare_open", "prepare_info_buffer", "prepare_stat", "prepare_data",
     "prepare_read", "run_ok", "run_ready", "run_err", "exit"}

\* The positions inside transfer_to_kernel().
TransferPositions ==
    {"transfer_open", "transfer_header", "transfer_mappings", "load_next",
     "load_compute", "load_allocate", "load_copy", "load_zero", "print_entries",
     "map_params", "map_count", "map_buffer", "map_capture", "exit_buffer",
     "exit_boot_services"}

\* Order of the positions between two firmware calls.
PcRank ==
    CASE pc \in {"format", "print"} -> 20
      [] pc = "load_copy" -> 1
      [] pc = "load_zero" -> 2
      [] pc = "load_next" -> 3
      [] pc = "load_compute" -> 4
      [] pc = "load_allocate" -> 5
      [] pc = "print_entries" -> 6
      [] pc = "map_params" -> 7
      [] pc = "run_prepare" -> 1
      [] pc = "prepare_image_info" -> 2
      [] pc = "run_ready" -> 1
      [] pc = "transfer_open" -> 2
      [] pc \in Loops -> 30
      [] OTHER -> 10

\* C9: transfer_to_kernel(), once started, is never left: the loader is at
\* one of its positions, in a print_string it called, or in an endless loop;
\* run() is likewise always at one of its own positions, inside
\* transfer_to_kernel() or in an endless loop, never past its end.  Every
\* step makes a firmware call or moves forward between two calls, and an
\* endless loop is never left.
C9_NeverReturns ==
    /\ [](pc \in RunPositions \cup TransferPositions \cup Loops \cup {"format", "print"})
    /\ [](hist.transfer = 1 =>
            /\ pc \in TransferPositions \cup Loops \cup {"format", "print"}
            /\ pc \in {"format", "print"} => out.ret \in TransferPositions)
    /\ [][~Halted]_vars
    /\ [][\/ Len(calls') > Len(calls)
          \/ (calls' = calls /\ PcRank' > PcRank)]_vars

\* C9 witness: the memory-map capture failed inside transfer_to_kernel() and
\* the loader is in the panic handler's loop.
C9_Witness ==
    /\ hist.transfer = 1
    /\ pc = "panic_loop"
    /\ Len(calls) > 0
    /\ LastCall.op = "memory_map"
    /\ IsError(LastCall.status)

\* C10: when memory_map reports EFI_BUFFER_TOO_SMALL, transfer_to_kernel()
\* goes back to the size query instead of halting.
C10_RetriesCapture ==
    (Len(calls) > 0 /\ LastCall.op = "memory_map"
                    /\ LastCall.status = EFI_BUFFER_TOO_SMALL) =>
        pc = "map_params"

\* ------------------------------------------------------------------------
\* The memory inventory, failed allocations and malformed input
\* ------------------------------------------------------------------------

IsAllocation(c) == c.op \in {"allocate_pages", "allocate_pool"}

\* The positions in the call log of the calls of operation op.
CallsOf(op) == { i \in 1..Len(calls) : calls[i].op = op }

\* The allocations logged strictly between positions i and j.
AllocationsBetween(i, j) ==
    { k \in 1..Len(calls) : i < k /\ k < j /\ IsAllocation(calls[k]) }

\* C11: between the memory-map size query and the capture the only
\* allocation is that of the capture buffer itself, and between the capture
\* and the exit-boot-services call there is no allocation at all.
C11_NoAllocationAroundCapture ==
    /\ \A q \in CallsOf("memory_map_params") :
          LET last == IF CallsOf("memory_map") = {} THEN Len(calls) + 1
                      ELSE Min(CallsOf("memory_map"))
          IN  \A k \in AllocationsBetween(q, last) :
                 /\ calls[k].op = "allocate_pool"
                 /\ calls[k].arg = <<ToNat(Shl2(map_info.map_size))>>
                 /\ AllocationsBetween(q, k) = {}
    /\ \A m \in CallsOf("memory_map") :
          AllocationsBetween(m, Len(calls) + 1) = {}

\* A page allocation that reported an error.
FailedAllocations ==
    { i \in CallsOf("allocate_pages") : IsError(calls[i].status) }

\* C12: after a failed page allocation no further page allocation and no
\* exit-boot-services call is made and control stays in the boot stub, and
\* once the loader has halted a text has been written to the console after
\* the failed call.
C12_AllocationFailureDiagnosed ==
    \A i \in FailedAllocations :
        /\ \A k \in (i + 1)..Len(calls) :
              calls[k].op \notin {"allocate_pages", "exit_boot_services"}
        /\ control.in = "boot-stub"
        /\ pc \notin TransferPositions
        /\ Halted => \E k \in (i + 1)..Len(calls) : calls[k].op = "output_string"

\* C13: in the Ready phase the kernel buffer has the length of the file and
\* holds the file's bytes.
C13_WholeFileRead ==
    phase = "Ready" =>
        /\ Len(loaded_image) = Len(KernelFile(table))
        /\ loaded_image = KernelFile(table)

\* C14: for a Load entry whose size_in_file exceeds its size_in_memory no
\* mapping is recorded, no byte of a region allocated for it is written and
\* boot services are not relinquished.
C14_FileSizeAboveMemorySize ==
    hist.transfer = 1 =>
        \A k \in 1..Len(LoadEntries) :
            Lt64(LoadEntries[k].size_in_memory, LoadEntries[k].size_in_file) =>
                /\ Len(required_mappings) < k
                /\ (Len(AllocateCalls) >= k /\ AllocateCalls[k].status = EFI_SUCCESS) =>
                      DOMAIN mem[AllocateCalls[k].ret].bytes = {}
                /\ Len(ExitCalls) = 0

\* ------------------------------------------------------------------------
\* Structure decoders: the ELF magic (elf/mod.rs), interrupt descriptors
\* (arch/x86_64/interrupts.rs), page-table entries (arch/x86_64/mem/paging.rs,
\* copied in arch/x86_64/paging.rs) and segment descriptors
\* (arch/x86_64/mem/protection/mod.rs, copied in arch/x86_64/gdt.rs).
\* ------------------------------------------------------------------------

\* a & b, a | b and a ^ b on naturals.
RECURSIVE BitAnd(_, _)
BitAnd(a, b) ==
    IF a = 0 \/ b = 0 THEN 0
    ELSE (a % 2) * (b % 2) + 2 * BitAnd(a \div 2, b \div 2)

BitOr(a, b) == a + b - BitAnd(a, b)

BitXor(a, b) == a + b - 2 * BitAnd(a, b)

And64(a, b) ==
    <<BitAnd(a[1], b[1]), BitAnd(a[2], b[2]), BitAnd(a[3], b[3]), BitAnd(a[4], b[4])>>

Or64(a, b) ==
    <<BitOr(a[1], b[1]), BitOr(a[2], b[2]), BitOr(a[3], b[3]), BitOr(a[4], b[4])>>

\* u64::from(x) of a u16 and of a u32.
U64FromU16(x) == <<x, 0, 0, 0>>

U64FromU32(x) == <<x[1], x[2], 0, 0>>

\* Faulty variant: the middle fragment is not shifted.
Shl16_Dropped(a) == a

\* a << 16 and a << 32 on a u64.
Shl16(a) == <<0, a[1], a[2], a[3]>>

Shl32(a) == <<0, 0, a[1], a[2]>>

\* Faulty variant: the magic is compared without regard to case.
is_magic_valid_AnyCase(header) ==
    header.magic \in { <<127, 69, 76, 70>>, <<127, 101, 108, 102>> }

\* FileHeaderCommon::is_magic_valid: self.magic.as_ref() == b"\x7FELF"
is_magic_valid(header) == header.magic = <<127, 69, 76, 70>>

\* InterruptDescriptor: the masks.
InterruptDescriptor_TYPE_MASK == 15

\* Faulty variant: the mask keeps the S bit as well.
InterruptDescriptor_entry_type_WideMask(d) ==
    LET gate_type == BitAnd(d.type_and_attributes, 31)
    IN  CASE gate_type = 14 -> <<"InterruptGate">>
          [] gate_type = 15 -> <<"TrapGate">>
          [] OTHER -> <<"Invalid", gate_type>>

\* InterruptDescriptor::entry_type
InterruptDescriptor_entry_type(d) ==
    LET gate_type == BitAnd(d.type_and_attributes, InterruptDescriptor_TYPE_MASK)
    IN  CASE gate_type = 14 -> <<"InterruptGate">>
          [] gate_type = 15 -> <<"TrapGate">>
          [] OTHER -> <<"Invalid", gate_type>>

\* SegmentSelector::from_raw
SegmentSelector_from_raw(segment_selector) == segment_selector

\* LogicalAddress::from_selector_and_offset
LogicalAddress_from_selector_and_offset(selector, offset) ==
    [selector |-> selector, offset |-> offset]

\* InterruptDescriptor::logical_address
InterruptDescriptor_logical_address(d) ==
    LET selector == SegmentSelector_from_raw(d.selector)
        offset   == Or64(Or64(Shl32(U64FromU32(d.offset_high)),
                              Shl16(U64FromU16(d.offset_middle))),
                         U64FromU16(d.offset_lower))
    IN  LogicalAddress_from_selector_and_offset(selector, offset)

\* bitflags! PageTableEntryFlags: u64
PageTableEntryFlags ==
    [PRESENT         |-> <<1, 0, 0, 0>>,
     WRITABLE        |-> <<2, 0, 0, 0>>,
     USER_ACCESSIBLE |-> <<4, 0, 0, 0>>,
     WRITE_THROUGH   |-> <<8, 0, 0, 0>>,
     DISABLE_CACHE   |-> <<16, 0, 0, 0>>,
     ACCESSED        |-> <<32, 0, 0, 0>>,
     DIRTY           |-> <<64, 0, 0, 0>>,
     HUGE_PAGE       |-> <<128, 0, 0, 0>>,
     GLOBAL          |-> <<256, 0, 0, 0>>,
     NO_EXECUTE      |-> <<0, 0, 0, 128 * 256>>]

\* PageTableEntry::FLAGS_MASK_B1 .. B8, one per byte, and their combination
\* B8 << 56 | B7 << 48 | .. | B2 << 8 | B1.
FLAGS_MASK_BYTES == <<255, 1, 0, 0, 0, 0, 0, 128>>

FLAGS_MASK ==
    <<FLAGS_MASK_BYTES[1] + 256 * FLAGS_MASK_BYTES[2],
      FLAGS_MASK_BYTES[3] + 256 * FLAGS_MASK_BYTES[4],
      FLAGS_MASK_BYTES[5] + 256 * FLAGS_MASK_BYTES[6],
      FLAGS_MASK_BYTES[7] + 256 * FLAGS_MASK_BYTES[8]>>

\* Faulty variant: the address mask runs up to bit 63.
PHYSICAL_ADDRESS_MASK_To63 == <<61440, 65535, 65535, 65535>>

\* 0x000F_FFFF_FFFF_F000
PHYSICAL_ADDRESS_MASK == <<61440, 65535, 65535, 15>>

\* Faulty variant: the reserved bits 9-11 are kept among the flags.
PageTableEntry_flags_KeepsLow12(raw) ==
    And64(raw, <<4095, 0, 0, 128 * 256>>)

\* PageTableEntry::flags: the bits of the PageTableEntryFlags value.
PageTableEntry_flags(raw) == And64(raw, FLAGS_MASK)

\* PageTableEntry::physical_address
PageTableEntry_physical_address(raw) == And64(raw, PHYSICAL_ADDRESS_MASK)

\* SegmentDescriptor: the masks.
S_MASK == 16

EXEC_MASK == 8

DC_MASK == 4

RW_MASK == 2

ACCESSED_MASK == 1

SegmentDescriptor_TYPE_MASK == 15

\* Faulty variant: Code and Data are told apart by the conforming bit.
SegmentDescriptor_IsCode_ByDC(attrs) == BitAnd(attrs, DC_MASK) # 0

\* attrs & Self::EXEC_MASK != 0
SegmentDescriptor_IsCode(attrs) == BitAnd(attrs, EXEC_MASK) # 0

\* SegmentDescriptor::entry_type
SegmentDescriptor_entry_type(d) ==
    LET attrs    == d.type_and_attributes
        s_is_set == BitAnd(attrs, S_MASK) # 0
        dc       == BitAnd(attrs, DC_MASK) # 0
        rw       == BitAnd(attrs, RW_MASK) # 0
        accessed == BitAnd(attrs, ACCESSED_MASK) # 0
        gate_type == BitAnd(attrs, SegmentDescriptor_TYPE_MASK)
    IN  IF s_is_set
        THEN IF SegmentDescriptor_IsCode(attrs)
             THEN [kind |-> "Code", accessed |-> accessed, read_only |-> rw,
                   conforming |-> dc]
             ELSE [kind |-> "Data", accessed |-> accessed, write_enabled |-> rw,
                   expansion_direction |-> IF dc THEN "Down" ELSE "Up"]
        ELSE CASE gate_type = 0  -> [kind |-> "Upper"]
               [] gate_type = 2  -> [kind |-> "LDT"]
               [] gate_type = 9  -> [kind |-> "AvailableTSS"]
               [] gate_type = 11 -> [kind |-> "BusyTSS"]
               [] gate_type = 12 -> [kind |-> "CallGate"]
               [] OTHER -> [kind |-> "InvalidSystem", value |-> gate_type]

\* The structures inspected.  Bytes of a magic: the signature's, their
\* lower-case forms, and others.
MagicBytes == {0, 69, 70, 76, 101, 127, 255}

FileHeaders ==
    { <<a, b, c, d>> \o Zeros(SizeOfFileHeaderCommon - 4) :
        a \in MagicBytes \ {101}, b \in {0, 69, 101}, c \in {0, 76, 108},
        d \in {0, 69, 70, 102} }

Fragments == {0, 1, 4660, 32768, 65535}

InterruptDescriptors ==
    { [offset_lower |-> 0, selector |-> 8, zero_and_reserved |-> 0,
       type_and_attributes |-> t, offset_middle |-> 0,
       offset_high |-> <<0, 0>>, extended_reserved |-> <<0, 0>>] : t \in 0..255 }
    \cup
    { [offset_lower |-> lo, selector |-> sel, zero_and_reserved |-> 0,
       type_and_attributes |-> 142, offset_middle |-> mid,
       offset_high |-> <<h0, h1>>, extended_reserved |-> <<0, 0>>] :
        lo \in Fragments, mid \in Fragments, h0 \in {0, 4660, 65535},
        h1 \in {0, 1, 65535}, sel \in {0, 8, 65535} }

PageTableEntries ==
    { <<l0, l1, l2, l3>> :
        l0 \in {0, 2051, 2179, 511, 3584, 61440, 65535},
        l1 \in {0, 32769, 65535},
        l2 \in {0, 65535},
        l3 \in {0, 15, 32752, 32768, 65535} }

SegmentDescriptors ==
    { [limit_low |-> 0, base_low |-> 0, base_mid |-> 0, type_and_attributes |-> t,
       limit_high_and_attributes |-> 0, base_high |-> 0] : t \in 0..255 }

\* ------------------------------------------------------------------------
\* Descriptor-table references (arch/x86_64/mem/protection, interrupts)
\* ------------------------------------------------------------------------

\* size_of::<SegmentDescriptor>(), repr(packed): u16, u16, u8, u8, u8, u8.
SizeOfSegmentDescriptor == 2 + 2 + 1 + 1 + 1 + 1

\* size_of::<InterruptDescriptor>(), repr(C): u16, u16, u8, u8, u16, u32,
\* u32, each at a multiple of its alignment, so no padding.
SizeOfInterruptDescriptor == 2 + 2 + 1 + 1 + 2 + 4 + 4

\* Faulty variant: the increment is done in the 16-bit width of the field.
SegmentDescriptorTableRef_count_Wraps(t) ==
    ((t.limit + 1) % Limb) \div SizeOfSegmentDescriptor

\* SegmentDescriptorTableRef::count: the limit is widened to usize before
\* the increment.
SegmentDescriptorTableRef_count(t) ==
    (t.limit + 1) \div SizeOfSegmentDescriptor

\* SegmentDescriptorTableRef::entries: a slice (pointer, length) of count()
\* descriptors from the table's address.
SegmentDescriptorTableRef_entries(t) ==
    [ptr |-> t.address, len |-> SegmentDescriptorTableRef_count(t)]

InterruptDescriptorTableRef_count(t) ==
    (t.limit + 1) \div SizeOfInterruptDescriptor

InterruptDescriptorTableRef_entries(t) ==
    [ptr |-> t.address, len |-> InterruptDescriptorTableRef_count(t)]

\* SegmentDescriptor: presence and privilege level.
SegmentDescriptor_PRESENT_MASK == 128

SegmentDescriptor_DPL_MASK == 96

SegmentDescriptor_DPL_SHIFT == 5

\* Faulty variant: the masked bits are not shifted down.
SegmentDescriptor_dpl_Unshifted(d) ==
    BitAnd(d.type_and_attributes, SegmentDescriptor_DPL_MASK)

SegmentDescriptor_is_present(d) ==
    BitAnd(d.type_and_attributes, SegmentDescriptor_PRESENT_MASK) # 0

SegmentDescriptor_dpl(d) ==
    BitAnd(d.type_and_attributes, SegmentDescriptor_DPL_MASK)
        \div 2 ^ SegmentDescriptor_DPL_SHIFT

\* InterruptDescriptor: presence and privilege level.
InterruptDescriptor_PRESENT_MASK == 128

InterruptDescriptor_DPL_MASK == 96

InterruptDescriptor_DPL_SHIFT == 5

InterruptDescriptor_is_present(d) ==
    BitAnd(d.type_and_attributes, InterruptDescriptor_PRESENT_MASK) # 0

InterruptDescriptor_dpl(d) ==
    BitAnd(d.type_and_attributes, InterruptDescriptor_DPL_MASK)
        \div 2 ^ InterruptDescriptor_DPL_SHIFT

\* ------------------------------------------------------------------------
\* Program header flags (elf/mod.rs)
\* ------------------------------------------------------------------------

And32(a, b) == <<BitAnd(a[1], b[1]), BitAnd(a[2], b[2])>>

Or32(a, b) == <<BitOr(a[1], b[1]), BitOr(a[2], b[2])>>

\* Faulty variant: the complement is taken in 16 bits.
Not32_Low16(a) == <<Limb - 1 - a[1], 0>>

\* !a on a u32.
Not32(a) == <<Limb - 1 - a[1], Limb - 1 - a[2]>>

\* 0b0111
STANDARD_FLAGS_MASK == <<7, 0>>

\* StandardSegmentFlags::from_bits_unchecked keeps the bits given.
standard_flags(pe) == [bits |-> And32(pe.flags, STANDARD_FLAGS_MASK)]

other_flags(pe) == And32(pe.flags, Not32(STANDARD_FLAGS_MASK))

\* Table references: limits around multiples of both entry sizes, and the
\* two ends of the 16-bit range.
TableLimits == {0, 6, 7, 8, 14, 15, 16, 22, 23, 31, 32, 127, 4095, 4096,
                Limb - 2, Limb - 1}

TableRefs == { [limit |-> l, address |-> U64Of(a)] : l \in TableLimits, a \in {0, 4096} }

\* Program headers: type codes at the arms of the conversion and around the
\* edges of its ranges; flag words with bits in every part of the word.
SegmentTypeCodes ==
    { <<n, 0>> : n \in 0..8 }
    \cup { <<58704, 25716>>, <<58705, 25716>>, <<58706, 25716>>,
           <<Limb - 1, 24575>>, <<0, 24576>>, <<Limb - 1, 28671>>,
           <<0, 28672>>, <<Limb - 1, 32767>>, <<0, 32768>>,
           <<7, 1>>, <<Limb - 1, Limb - 1>> }

SegmentFlagWords ==
    { <<lo, hi>> : lo \in (0..8) \cup {15, 4660, Limb - 8, Limb - 1},
                   hi \in {0, 1, 32768, Limb - 1} }

ProgramHeaderOf(type, flags) ==
    [segment_type |-> type, flags |-> flags, offset |-> Zero64, vma |-> Zero64,
     lma |-> Zero64, size_in_file |-> Zero64, size_in_memory |-> Zero64,
     align |-> Zero64]

ProgramHeaders ==
    { ProgramHeaderOf(t, <<5, 0>>) : t \in SegmentTypeCodes }
    \cup { ProgramHeaderOf(PT_LOAD, f) : f \in SegmentFlagWords }

\* ------------------------------------------------------------------------
\* Kernel buffers given to ELF64::open on their own
\* ------------------------------------------------------------------------

\* The buffer with the u16 at off replaced.
WithU16(buf, off, v) ==
    [i \in 1..Len(buf) |->
        IF i = off + 1 THEN v % 256
        ELSE IF i = off + 2 THEN v \div 256
        ELSE buf[i]]

RECURSIVE PaddedTableBytes(_, _, _)
PaddedTableBytes(tab, dataStart, pad) ==
    IF tab = <<>> THEN <<>>
    ELSE EntryBytes(Head(tab), dataStart) \o Zeros(pad)
           \o PaddedTableBytes(Tail(tab), dataStart, pad)

\* A file whose header declares entries of size bytes and whose table is
\* laid out at that stride.
FileWithEntrySize(tab, size) ==
    LET dataStart == HeaderLen + Len(tab) * size
    IN  WithU16(HeaderBytes(Len(tab)), SizeOfFileHeaderCommon + 30, size)
          \o PaddedTableBytes(tab, dataStart, size - SizeOfProgramHeader64)
          \o [k \in 1..DataLen |-> k]

\* A file cut off after its first program header.
TruncatedFile(tab) == SubSeq(KernelFile(tab), 1, HeaderLen + SizeOfProgramHeader64)

ElfFiles ==
    { KernelFile(tab) : tab \in ProgramTables }
    \cup { FileWithEntrySize(tab, SizeOfProgramHeader64 + 8) : tab \in ProgramTables }
    \cup { TruncatedFile(tab) : tab \in { t \in ProgramTables : Len(t) >= 2 } }

\* Where the view of program_entries ends.
ViewEnd(file) ==
    LET h == ELF64_open(file).header_64
    IN  ToNat(h.program_header_table_position)
          + h.program_header_entry_count * SizeOfProgramHeader64

\* What follows the buffer in memory is not the loader's: any bytes.
AdjacentBytes == {0, 255}

\* The memory the view is laid over: the buffer, then what follows it.
Memory(file, b) == file \o [i \in 1..(ViewEnd(file) - Len(file)) |-> b]

\* ------------------------------------------------------------------------
\* print_string, byte by byte (loader/mod.rs and main.rs)
\* ------------------------------------------------------------------------

\* chunk[i] as u16: zero extension of a byte.
U16FromU8(b) == b % Limb

\* What the console reads from a pointer to memory: the units before the
\* first zero (all of them if there is none).
UpToNul(units) ==
    IF \E i \in 1..Len(units) : units[i] = 0
    THEN SubSeq(units, 1, Min({ i \in 1..Len(units) : units[i] = 0 }) - 1)
    ELSE units

\* Faulty variant: the chunks are as long as the buffer.
ChunkLen_WholeBuffer == BufLen

\* string_bytes.chunks(buf.len() - 1)
ChunkLen == BufLen - 1

\* The loop over the chunks of loader/mod.rs print_string, buf being the
\* buffer as the previous chunk left it.  For every chunk: the indices
\* written (an index of buf.len() or more panics), the slice given to
\* from_u16_with_nul_unchecked and the units the console reads from its
\* pointer.
RECURSIVE PrintChunks(_, _, _)
PrintChunks(rest, buf, acc) ==
    IF rest = <<>> THEN acc
    ELSE LET n     == IF Len(rest) < ChunkLen THEN Len(rest) ELSE ChunkLen
             chunk == SubSeq(rest, 1, n)
             buf1  == [i \in 1..BufLen |->
                          IF i <= n THEN U16FromU8(chunk[i])
                          ELSE IF i = n + 1 THEN 0
                          ELSE buf[i]]
         IN  IF n >= BufLen
             THEN [acc EXCEPT !.panicked = TRUE, !.written = @ \cup (0..n)]
             ELSE PrintChunks(SubSeq(rest, n + 1, Len(rest)), buf1,
                      [acc EXCEPT !.written = @ \cup (0..n),
                                  !.calls = Append(@, [slice |-> SubSeq(buf1, 1, n),
                                                       read  |-> UpToNul(buf1)])])

\* loader/mod.rs print_string, every output_string succeeding.
loader_print_string(string_bytes) ==
    PrintChunks(string_bytes, [i \in 1..BufLen |-> 0],
                [panicked |-> FALSE, written |-> {}, calls |-> <<>>])

\* let mut buf = [0u16; 128] of main.rs print_string.
MainBufLen == 128

\* main.rs print_string: one buffer, no chunks.  buf[i] with i >= 128
\* panics; otherwise the whole buffer is given to the console, which reads
\* up to the first zero, in the buffer or in the memory after it.
main_print_string(string_bytes, after) ==
    LET len == Len(string_bytes)
        buf == [i \in 1..MainBufLen |->
                   IF i <= len THEN U16FromU8(string_bytes[i]) ELSE 0]
    IN  IF len > MainBufLen
        THEN [panicked |-> TRUE, written |-> 0..MainBufLen, calls |-> <<>>]
        ELSE [panicked |-> FALSE, written |-> 0..(len - 1),
              calls |-> <<[slice |-> buf, read |-> UpToNul(buf \o after)]>>]

\* The digits of {} for a usize.
RECURSIVE DecBytes(_)
DecBytes(n) == IF n < 10 THEN <<48 + n>> ELSE DecBytes(n \div 10) \o <<48 + (n % 10)>>

\* format!("Would run kernel with mem map of size {}: {}", map_size,
\* kernel_str) of main.rs transfer_to_kernel, kernel_str being the bytes of
\* the kernel file.
TransferMessage(map_size, loaded) ==
    <<87, 111, 117, 108, 100, 32, 114, 117, 110, 32, 107, 101, 114, 110, 101,
      108, 32, 119, 105, 116, 104, 32, 109, 101, 109, 32, 109, 97, 112, 32,
      111, 102, 32, 115, 105, 122, 101, 32>>
      \o DecBytes(map_size) \o <<58, 32>> \o loaded

\* Messages: texts without a zero byte of lengths around the multiples of
\* the two buffer sizes, and the message of transfer_to_kernel for kernel
\* files of several lengths.
MessageLens ==
    {0, 1, BufLen - 2, BufLen - 1, BufLen, 2 * BufLen - 3, 2 * BufLen - 2,
     2 * BufLen - 1, MainBufLen - 1, MainBufLen, MainBufLen + 1, 3 * BufLen - 3,
     3 * BufLen - 2}

Messages ==
    { [i \in 1..n |-> ((i * k) % 255) + 1] : n \in MessageLens, k \in {1, 7} }
    \cup { TransferMessage(4096, KernelFile(tab)) :
             tab \in { t \in ProgramTables : Len(t) <= 1 } }
    \cup { TransferMessage(4096, SubSeq(KernelFile(<<>>), 1, n)) :
             n \in {HeaderLen, MainBufLen - 44} }

Probes ==
    { [kind |-> "FileHeaderCommon", in |-> b, out |-> <<>>] : b \in FileHeaders }
    \cup { [kind |-> "InterruptDescriptor", in |-> d, out |-> <<>>] :
             d \in InterruptDescriptors }
    \cup { [kind |-> "PageTableEntry", in |-> e, out |-> <<>>] : e \in PageTableEntries }
    \cup { [kind |-> "SegmentDescriptor", in |-> d, out |-> <<>>] :
             d \in SegmentDescriptors }
    \cup { [kind |-> "SegmentDescriptorTableRef", in |-> t, out |-> <<>>] :
             t \in TableRefs }
    \cup { [kind |-> "InterruptDescriptorTableRef", in |-> t, out |-> <<>>] :
             t \in TableRefs }
    \cup { [kind |-> "ProgramHeader64", in |-> pe, out |-> <<>>] :
             pe \in ProgramHeaders }
    \cup { [kind |-> "ELF64", in |-> f, out |-> <<>>] : f \in ElfFiles }
    \cup { [kind |-> "print_string", in |-> m, out |-> <<>>] : m \in Messages }

\* The loader does not run; one structure is given.
DecodeInit ==
    /\ pc = "run"
    /\ phase = "Prepare"
    /\ overflow_checks = FALSE
    /\ table = <<>>
    /\ dbg_len = BufLen
    /\ calls = <<>>
    /\ result = [ok |-> FALSE, kind |-> "", status |-> EFI_SUCCESS]
    /\ loaded_image = <<>>
    /\ out = NoOut
    /\ hist = [prepare |-> 0, ready |-> 0, transfer |-> 0]
    /\ pe_i = 0
    /\ load_index = 0
    /\ cur = NoCur
    /\ required_mappings = <<>>
    /\ mem = <<>>
    /\ print_i = 0
    /\ map_info = [map_size |-> Zero64, entry_size |-> Zero64]
    /\ control = [in |-> "boot-stub", entry |-> Zero64, inventory |-> NoArg]
    /\ probe \in Probes

\* A method of the structure is called and its value kept.
Read(kind, method, value) ==
    /\ probe.kind = kind
    /\ method \notin DOMAIN probe.out
    /\ probe' = [probe EXCEPT !.out = (method :> value) @@ @]
    /\ UNCHANGED <<pc, phase, overflow_checks, table, dbg_len, calls, result,
                   loaded_image, out, hist, pe_i, load_index, cur,
                   required_mappings, mem, print_i, map_info, control>>

CallIsMagicValid ==
    Read("FileHeaderCommon", "is_magic_valid",
         is_magic_valid(FileHeaderCommon(probe.in)))

CallInterruptEntryType ==
    Read("InterruptDescriptor", "entry_type", InterruptDescriptor_entry_type(probe.in))

CallInterruptLogicalAddress ==
    Read("InterruptDescriptor", "logical_address",
         InterruptDescriptor_logical_address(probe.in))

CallPageTableEntryFlags ==
    Read("PageTableEntry", "flags", PageTableEntry_flags(probe.in))

CallPageTableEntryPhysicalAddress ==
    Read("PageTableEntry", "physical_address",
         PageTableEntry_physical_address(probe.in))

CallSegmentEntryType ==
    Read("SegmentDescriptor", "entry_type", SegmentDescriptor_entry_type(probe.in))

CallSegmentTableCount ==
    Read("SegmentDescriptorTableRef", "count",
         SegmentDescriptorTableRef_count(probe.in))

CallSegmentTableEntries ==
    Read("SegmentDescriptorTableRef", "entries",
         SegmentDescriptorTableRef_entries(probe.in))

CallInterruptTableCount ==
    Read("InterruptDescriptorTableRef", "count",
         InterruptDescriptorTableRef_count(probe.in))

CallInterruptTableEntries ==
    Read("InterruptDescriptorTableRef", "entries",
         InterruptDescriptorTableRef_entries(probe.in))

CallSegmentIsPresent ==
    Read("SegmentDescriptor", "is_present", SegmentDescriptor_is_present(probe.in))

CallSegmentDpl ==
    Read("SegmentDescriptor", "dpl", SegmentDescriptor_dpl(probe.in))

CallInterruptIsPresent ==
    Read("InterruptDescriptor", "is_present",
         InterruptDescriptor_is_present(probe.in))

CallInterruptDpl ==
    Read("InterruptDescriptor", "dpl", InterruptDescriptor_dpl(probe.in))

CallSegmentType ==
    Read("ProgramHeader64", "segment_type", segment_type(probe.in))

CallStandardFlags ==
    Read("ProgramHeader64", "standard_flags", standard_flags(probe.in))

CallOtherFlags ==
    Read("ProgramHeader64", "other_flags", other_flags(probe.in))

\* The view is made with no check against the buffer's length; entries
\* past its end are whatever memory holds there.
CallProgramEntries ==
    \E b \in AdjacentBytes :
        Read("ELF64", "program_entries", program_entries(Memory(probe.in, b)))

CallLoaderPrintString ==
    Read("print_string", "loader", loader_print_string(probe.in))

\* What follows the buffer on the stack is not the buffer's: any units,
\* here a run that ends in a zero.
CallMainPrintString ==
    \E after \in {<<0>>, <<65, 0>>} :
        Read("print_string", "main", main_print_string(probe.in, after))

DecodeNext ==
    \/ CallIsMagicValid
    \/ CallInterruptEntryType \/ CallInterruptLogicalAddress
    \/ CallPageTableEntryFlags \/ CallPageTableEntryPhysicalAddress
    \/ CallSegmentEntryType
    \/ CallSegmentTableCount \/ CallSegmentTableEntries
    \/ CallInterruptTableCount \/ CallInterruptTableEntries
    \/ CallSegmentIsPresent \/ CallSegmentDpl
    \/ CallInterruptIsPresent \/ CallInterruptDpl
    \/ CallSegmentType \/ CallStandardFlags \/ CallOtherFlags
    \/ CallProgramEntries
    \/ CallLoaderPrintString \/ CallMainPrintString

DecodeSpec == DecodeInit /\ [][DecodeNext]_vars

\* The value a method returned, once it was called.
Has(kind, method) == probe.kind = kind /\ method \in DOMAIN probe.out

\* C15: is_magic_valid() is true exactly when the first four bytes of the
\* buffer are 0x7F, 'E', 'L', 'F' in that order.
C15_MagicValid ==
    Has("FileHeaderCommon", "is_magic_valid") =>
        (probe.out.is_magic_valid <=>
            (/\ probe.in[1] = 127 /\ probe.in[2] = 69
             /\ probe.in[3] = 76  /\ probe.in[4] = 70))

\* C15 witness: a header starting with the signature was found valid.
C15_Witness ==
    /\ Has("FileHeaderCommon", "is_magic_valid")
    /\ SubSeq(probe.in, 1, 4) = <<127, 69, 76, 70>>
    /\ probe.out.is_magic_valid

\* C16: entry_type() of an interrupt descriptor depends on the low 4 bits v
\* of the type-and-attributes byte only: InterruptGate for 0b1110, TrapGate
\* for 0b1111, Invalid(v) otherwise.
C16_InterruptEntryType ==
    Has("InterruptDescriptor", "entry_type") =>
        LET v == probe.in.type_and_attributes % 16
        IN  probe.out.entry_type =
               IF v = 14 THEN <<"InterruptGate">>
               ELSE IF v = 15 THEN <<"TrapGate">>
               ELSE <<"Invalid", v>>

\* C16 witness: a byte with high bits set (0x9E) decoded to InterruptGate.
C16_Witness ==
    /\ Has("InterruptDescriptor", "entry_type")
    /\ probe.in.type_and_attributes = 158
    /\ probe.out.entry_type = <<"InterruptGate">>

\* The names of the flags set in a PageTableEntryFlags value.
FlagNames(bits) ==
    { n \in DOMAIN PageTableEntryFlags : And64(bits, PageTableEntryFlags[n]) # Zero64 }

\* 0x8000000000000803 and 0x8000000000000883
Entry803 == <<2051, 0, 0, 32768>>

Entry883 == <<2179, 0, 0, 32768>>

BothRead ==
    /\ Has("PageTableEntry", "flags")
    /\ Has("PageTableEntry", "physical_address")

\* C17 as stated: for raw value 0x8000000000000803 flags() is exactly
\* {PRESENT, WRITABLE, HUGE_PAGE, NO_EXECUTE} and physical_address() is 0.
C17_AsStated ==
    (BothRead /\ probe.in = Entry803) =>
        /\ FlagNames(probe.out.flags) = {"PRESENT", "WRITABLE", "HUGE_PAGE", "NO_EXECUTE"}
        /\ probe.out.physical_address = Zero64

\* C17 amended: for raw value 0x8000000000000803 flags() is exactly
\* {PRESENT, WRITABLE, NO_EXECUTE}, with no other bit in the flags value
\* (bit 11 of the raw value is reserved; HUGE_PAGE is bit 7), and
\* physical_address() is 0; the raw value for which flags() is exactly
\* {PRESENT, WRITABLE, HUGE_PAGE, NO_EXECUTE} with address 0 is
\* 0x8000000000000883.
C17_Entry803 ==
    /\ (BothRead /\ probe.in = Entry803) =>
          /\ FlagNames(probe.out.flags) = {"PRESENT", "WRITABLE", "NO_EXECUTE"}
          /\ probe.out.flags = <<3, 0, 0, 32768>>
          /\ probe.out.physical_address = Zero64
    /\ (BothRead /\ probe.in = Entry883) =>
          /\ FlagNames(probe.out.flags) = {"PRESENT", "WRITABLE", "HUGE_PAGE", "NO_EXECUTE"}
          /\ probe.out.flags = <<131, 0, 0, 32768>>
          /\ probe.out.physical_address = Zero64

\* C17 witness: both methods were called on 0x8000000000000803.
C17_Witness == BothRead /\ probe.in = Entry803

Xor64(a, b) ==
    <<BitXor(a[1], b[1]), BitXor(a[2], b[2]), BitXor(a[3], b[3]), BitXor(a[4], b[4])>>

\* One mask per reserved bit: bits 9-11 and bits 52-62.
ReservedBitMasks ==
    { <<m, 0, 0, 0>> : m \in {512, 1024, 2048} }
    \cup { <<0, 0, 0, m>> :
             m \in {16, 32, 64, 128, 256, 512, 1024, 2048, 4096, 8192, 16384} }

\* C18: flags() is the raw value restricted to bits 0-8 and 63, and
\* physical_address() is the raw value restricted to bits 12-51; flipping a
\* reserved bit (9-11, 52-62) of the raw value changes neither, and the two
\* values have no bit in common.
C18_ReservedBitsIgnored ==
    /\ Has("PageTableEntry", "flags") =>
          /\ probe.out.flags =
                <<probe.in[1] % 512, 0, 0, (probe.in[4] \div 32768) * 32768>>
          /\ \A m \in ReservedBitMasks :
                PageTableEntry_flags(Xor64(probe.in, m)) = probe.out.flags
    /\ Has("PageTableEntry", "physical_address") =>
          /\ probe.out.physical_address =
                <<probe.in[1] - (probe.in[1] % 4096), probe.in[2], probe.in[3],
                  probe.in[4] % 16>>
          /\ \A m \in ReservedBitMasks :
                PageTableEntry_physical_address(Xor64(probe.in, m))
                    = probe.out.physical_address
    /\ BothRead => And64(probe.out.flags, probe.out.physical_address) = Zero64

\* C18 witness: both methods were called on the entry with all 64 bits set.
C18_Witness == BothRead /\ probe.in = AllOnes64

C20_LogicalAddress ==
    Has("InterruptDescriptor", "logical_address") =>
        /\ probe.out.logical_address.offset =
              <<probe.in.offset_lower, probe.in.offset_middle,
                probe.in.offset_high[1], probe.in.offset_high[2]>>
        /\ probe.out.logical_address.selector = probe.in.selector

\* C20 witness: a descriptor whose three fragments are all non-zero and
\* differ was decoded.
C20_Witness ==
    /\ Has("InterruptDescriptor", "logical_address")
    /\ probe.in.offset_lower = 4660
    /\ probe.in.offset_middle = 65535
    /\ probe.in.offset_high = <<4660, 1>>
    /\ probe.in.selector = 8

\* C21: for every 16-bit limit, 0xFFFF included, count() of a table
\* reference is the floor of (limit + 1) / entrySize with the sum taken in
\* full width, entrySize being 8 for the segment table and 16 for the
\* interrupt table; entries() exposes exactly count() entries, from the
\* table's address.
C21_TableCount ==
    /\ SizeOfSegmentDescriptor = 8
    /\ SizeOfInterruptDescriptor = 16
    /\ Has("SegmentDescriptorTableRef", "count") =>
          /\ probe.out.count * 8 <= probe.in.limit + 1
          /\ probe.in.limit + 1 < (probe.out.count + 1) * 8
    /\ Has("InterruptDescriptorTableRef", "count") =>
          /\ probe.out.count * 16 <= probe.in.limit + 1
          /\ probe.in.limit + 1 < (probe.out.count + 1) * 16
    /\ (Has("SegmentDescriptorTableRef", "entries")
          \/ Has("InterruptDescriptorTableRef", "entries")) =>
          /\ probe.out.entries.ptr = probe.in.address
          /\ "count" \in DOMAIN probe.out =>
                probe.out.entries.len = probe.out.count

\* C21 witness: the segment table of limit 0xFFFF was counted as 8192
\* entries and its view holds as many.
C21_Witness ==
    /\ Has("SegmentDescriptorTableRef", "count")
    /\ Has("SegmentDescriptorTableRef", "entries")
    /\ probe.in.limit = Limb - 1
    /\ probe.out.count = 8192
    /\ probe.out.entries.len = 8192

\* C22: segment_type() decodes every 32-bit type code n to exactly one
\* kind: 0 Null, 1 Load, 2 Dynamic, 3 Interpreter, 4 Note,
\* 6 ProgramHeaderTable, 7 ThreadLocalStorage, 0x6474e550 and 0x6474e551 to
\* their GNU kinds, any other code of 0x60000000..0x6FFFFFFF to
\* OperatingSystemSpecific(n), a code of 0x70000000..0x7FFFFFFF to
\* ProcessorSpecific(n), and everything else to Other(n).
C22_SegmentTypeDecoding ==
    Has("ProgramHeader64", "segment_type") =>
        LET n == probe.in.segment_type
        IN  probe.out.segment_type =
              CASE n = <<0, 0>> -> <<"Null">>
                [] n = <<1, 0>> -> <<"Load">>
                [] n = <<2, 0>> -> <<"Dynamic">>
                [] n = <<3, 0>> -> <<"Interpreter">>
                [] n = <<4, 0>> -> <<"Note">>
                [] n = <<6, 0>> -> <<"ProgramHeaderTable">>
                [] n = <<7, 0>> -> <<"ThreadLocalStorage">>
                [] n = <<58704, 25716>> -> <<"GNUEHFrame">>
                [] n = <<58705, 25716>> -> <<"GNUStack">>
                [] n[2] \in 24576..28671 /\ n \notin {<<58704, 25716>>, <<58705, 25716>>}
                     -> <<"OperatingSystemSpecific", n>>
                [] n[2] \in 28672..32767 -> <<"ProcessorSpecific", n>>
                [] OTHER -> <<"Other", n>>

\* C23: for every 32-bit flags word f, standard_flags() holds exactly
\* f & 0b111, other_flags() holds exactly the remaining bits of f, the two
\* share no bit, and their bitwise OR is f.
C23_FlagsPartition ==
    /\ Has("ProgramHeader64", "standard_flags") =>
          probe.out.standard_flags.bits = <<probe.in.flags[1] % 8, 0>>
    /\ Has("ProgramHeader64", "other_flags") =>
          probe.out.other_flags =
              <<probe.in.flags[1] - (probe.in.flags[1] % 8), probe.in.flags[2]>>
    /\ (Has("ProgramHeader64", "standard_flags")
          /\ Has("ProgramHeader64", "other_flags")) =>
          /\ And32(probe.out.standard_flags.bits, probe.out.other_flags) = <<0, 0>>
          /\ Or32(probe.out.standard_flags.bits, probe.out.other_flags)
                = probe.in.flags

\* C23 witness: the word 0xFFFF1234 was split into 0b100 and 0xFFFF1230.
C23_Witness ==
    /\ Has("ProgramHeader64", "standard_flags")
    /\ Has("ProgramHeader64", "other_flags")
    /\ probe.in.flags = <<4660, Limb - 1>>
    /\ probe.out.standard_flags.bits = <<4, 0>>
    /\ probe.out.other_flags = <<4656, Limb - 1>>

\* C26: for every type-and-attributes byte of a segment descriptor or an
\* interrupt descriptor, is_present() is true exactly when bit 7 is set and
\* dpl() is the value of bits 5-6, a number of 0..3; both are functions of
\* those bits alone.
C26_PresentAndDpl ==
    LET byte == probe.in.type_and_attributes
    IN  /\ (Has("SegmentDescriptor", "is_present")
              \/ Has("InterruptDescriptor", "is_present")) =>
              (probe.out.is_present <=> (byte \div 128) % 2 = 1)
        /\ (Has("SegmentDescriptor", "dpl") \/ Has("InterruptDescriptor", "dpl")) =>
              /\ probe.out.dpl = (byte \div 32) % 4
              /\ probe.out.dpl \in 0..3

\* C26 witness: byte 0xFF of a segment descriptor gave present with
\* privilege level 3.
C26_Witness ==
    /\ Has("SegmentDescriptor", "is_present")
    /\ Has("SegmentDescriptor", "dpl")
    /\ probe.in.type_and_attributes = 255
    /\ probe.out.is_present
    /\ probe.out.dpl = 3

\* C24: program_entries() returns a view of exactly
\* program_header_entry_count descriptors, the i-th (from 0) read at byte
\* offset program_header_table_position + i * program_header_entry_size of
\* the buffer, whatever entry size the header declares.  (Stated for
\* tables that lie inside the buffer.)
C24_EntriesAtDeclaredStride ==
    Has("ELF64", "program_entries") =>
        LET h     == ELF64_open(probe.in).header_64
            first == ToNat(h.program_header_table_position)
            n     == h.program_header_entry_count
            size  == h.program_header_entry_size
        IN  /\ Len(probe.out.program_entries) = n
            /\ (first + n * size <= Len(probe.in) /\ ViewEnd(probe.in) <= Len(probe.in)) =>
                  \A i \in 1..n :
                      probe.out.program_entries[i] =
                          ProgramHeader64(probe.in, first + (i - 1) * size)

\* C27: the program-header view never extends past the kernel buffer:
\* program_header_table_position + program_header_entry_count * 56 is at
\* most the buffer's length, or the image is rejected and no descriptor is
\* read.
C27_ViewInsideBuffer ==
    Has("ELF64", "program_entries") =>
        \/ ViewEnd(probe.in) <= Len(probe.in)
        \/ Len(probe.out.program_entries) = 0

\* The units of all console calls, one after the other.
RECURSIVE Sent(_, _)
Sent(calls_made, field) ==
    IF calls_made = <<>> THEN <<>>
    ELSE Head(calls_made)[field] \o Sent(Tail(calls_made), field)

\* C29: print_string of the loader handles a message of any length: its
\* bytes reach the console once each, in order, each widened to 16 bits,
\* in calls of at most 63 units; every buffer index written, the
\* terminator's included, is below 64; the console reads exactly the chunk
\* given (for a text without a zero byte, as the loader's are); an empty
\* message makes no console call.
C29_ChunkedPrint ==
    Has("print_string", "loader") =>
        LET r == probe.out.loader
        IN  /\ ~r.panicked
            /\ Sent(r.calls, "slice") = probe.in
            /\ (\A i \in 1..Len(probe.in) : probe.in[i] # 0) =>
                  Sent(r.calls, "read") = probe.in
            /\ \A k \in 1..Len(r.calls) : Len(r.calls[k].slice) \in 1..63
            /\ \A i \in r.written : i < 64
            /\ Len(r.calls) = Chunks(Len(probe.in))
            /\ (probe.in = <<>>) => (r.calls = <<>>)

\* C29 witness: a message of 127 bytes went out as chunks of 63, 63 and 1,
\* the terminator of the full chunks written at index 63.
C29_Witness ==
    /\ Has("print_string", "loader")
    /\ Len(probe.in) = 127
    /\ Len(probe.out.loader.calls) = 3
    /\ Len(probe.out.loader.calls[3].slice) = 1
    /\ 63 \in probe.out.loader.written

\* C30: for every message print_string of main.rs is given, the message of
\* transfer_to_kernel() with the whole kernel file in it included, every
\* index written into the 128-element buffer is below 128 (no write is
\* attempted at 128 or beyond) and the buffer given to the console holds a
\* zero terminator.
C30_MainPrintBounded ==
    Has("print_string", "main") =>
        LET r == probe.out.main
        IN  /\ ~r.panicked
            /\ \A i \in r.written : i < 128
            /\ \A k \in 1..Len(r.calls) :
                  \E i \in 1..Len(r.calls[k].slice) : r.calls[k].slice[i] = 0

\* C25: in transfer_to_kernel() the image is parsed, then all Load
\* segments are allocated and copied, then the memory-map size is queried,
\* then the map is captured, then boot services are relinquished: every
\* page allocation precedes the size query, which precedes the capture,
\* which precedes the exit call; the query and the exit call are made only
\* after the load loop has run over every Load segment; and after the
\* query no region is allocated or written and no mapping is recorded.
C25_EventOrder ==
    /\ [](/\ CallsOf("allocate_pages") # {} => hist.transfer = 1
          /\ \A a \in CallsOf("allocate_pages"), q \in CallsOf("memory_map_params") :
                a < q
          /\ \A q \in CallsOf("memory_map_params"), m \in CallsOf("memory_map") :
                q < m
          /\ \A m \in CallsOf("memory_map"), x \in CallsOf("exit_boot_services") :
                m < x
          /\ CallsOf("memory_map") # {} => CallsOf("memory_map_params") # {}
          /\ CallsOf("exit_boot_services") # {} => CallsOf("memory_map") # {}
          /\ CallsOf("memory_map_params") # {} =>
                /\ LoadLoopDone
                /\ Len(required_mappings) = Len(LoadEntries)
                /\ Len(AllocateCalls) = Len(LoadEntries))
    /\ [][CallsOf("memory_map_params") # {} =>
             (mem' = mem /\ required_mappings' = required_mappings)]_vars

\* C25 witness: boot services were relinquished after two Load segments
\* were loaded and the map was queried and captured.
C25_Witness ==
    /\ Len(ExitCalls) = 1
    /\ Len(AllocateCalls) = 2
    /\ Len(required_mappings) = 2
    /\ CallsOf("memory_map") # {}

\* C28: for every loaded Load segment with fileSize <= memorySize, the
\* range [pageOffset, pageOffset + memorySize) is contained in
\* [0, pageCount * 4096) and every index written in the region lies in it.
C28_WritesInsideSegment ==
    \A k \in 1..Len(required_mappings) :
        LET e      == LoadEntries[k]
            region == mem[required_mappings[k][2]]
            off    == AndFFF(e.vma)
            endMem == AddC(off, e.size_in_memory)
        IN  Le64(e.size_in_file, e.size_in_memory) =>
              /\ ~endMem.overflow
              /\ Le64(endMem.v, Shl12(region.pages))
              /\ \A i \in DOMAIN region.bytes :
                    Le64(off, U64Of(i)) /\ Lt64(U64Of(i), endMem.v)

====
